---- MODULE Spec2Model ----
(***************************************************************************)
(* Query-time RAG pipeline of oci-rag-kit: VectorSearcher, JapaneseReranker, *)
(* AnswerGenerator and the RAGPipeline orchestrator (src/src/rag), and the   *)
(* ingestion DataPipeline with its DocumentWriter (src/src/data_pipeline).   *)
(*                                                                           *)
(* The specifications share the variables of this module:                   *)
(*   Spec          RAGPipeline.process_batch, one step per collaborator call *)
(*   SpecSingle    RAGPipeline.process_single called directly                *)
(*   SpecGenerate  AnswerGenerator.generate with _execute_with_retry         *)
(*   SpecGenerateFair  the same, each enabled step eventually taken          *)
(*   SpecRerank    JapaneseReranker.rerank as a function of its inputs       *)
(*   SpecSearch    VectorSearcher.search with its store connection           *)
(*   SpecContexts  the context listing: prompt, stored text, parsing,        *)
(*                 and RAGPipeline.evaluate                                  *)
(*   SpecBatchFilter  the filter column in process_batch                     *)
(*   SpecBatchTable   the input and output tables of process_batch           *)
(*   SpecData      DataPipeline.process_all with DocumentWriter              *)
(*   SpecExtract   TextExtractor.extract, alone and behind DocumentLoader    *)
(* Each specification leaves the variables of the others at their            *)
(* idle values.                                                              *)
(***************************************************************************)
EXTENDS Integers, Sequences, FiniteSets, TLC

\* ------------------------------------------------------------------------
\* Bounds of the model
\* ------------------------------------------------------------------------
MaxRows == 2
MaxHits == 2
MaxTopN == 2

\* ------------------------------------------------------------------------
\* Python values
\* ------------------------------------------------------------------------
\* A table cell: a str (text is its sequence of characters) or a float NaN
\* (an empty spreadsheet cell).
StrCell(t) == [isStr |-> TRUE, text |-> t]
NaNCell == [isStr |-> FALSE, text |-> <<>>]

\* Question cells of the input table: empty, blank, ordinary text, NaN.
QuestionCells == {StrCell(<<>>), StrCell(<<" ">>), StrCell(<<"a">>), NaNCell}

\* rerank_score = None
NoScore == -1

\* the whitespace characters that occur in the modelled strings
Whitespace == {" ", "\n"}

\* str.strip(): drop leading and trailing whitespace.
RECURSIVE LStrip(_)
LStrip(t) ==
    IF t = <<>> THEN <<>>
    ELSE IF Head(t) \in Whitespace THEN LStrip(Tail(t))
    ELSE t

RECURSIVE RStrip(_)
RStrip(t) ==
    IF t = <<>> THEN <<>>
    ELSE IF t[Len(t)] \in Whitespace THEN RStrip(SubSeq(t, 1, Len(t) - 1))
    ELSE t

Strip(t) == RStrip(LStrip(t))

\* seq[:n] with Python's meaning of a negative stop.
PySlice(s, n) ==
    IF n >= 0
    THEN SubSeq(s, 1, IF n < Len(s) THEN n ELSE Len(s))
    ELSE SubSeq(s, 1, IF Len(s) + n > 0 THEN Len(s) + n ELSE 0)

\* ------------------------------------------------------------------------
\* JapaneseReranker.rerank, as functions of the candidates
\* ------------------------------------------------------------------------
\* RankedChunk(..., rerank_score=score)
ToRanked(chunk, score) ==
    [chunk_id |-> chunk.chunk_id, distance |-> chunk.distance,
     rerank_score |-> score]

\* list.sort(key=lambda x: x.distance): stable, ascending.
RECURSIVE InsertByDistance(_, _)
InsertByDistance(x, s) ==
    IF s = <<>> THEN <<x>>
    ELSE IF x.distance < Head(s).distance THEN <<x>> \o s
    ELSE <<Head(s)>> \o InsertByDistance(x, Tail(s))

RECURSIVE SortByDistance(_)
SortByDistance(s) ==
    IF s = <<>> THEN <<>>
    ELSE InsertByDistance(s[Len(s)], SortByDistance(SubSeq(s, 1, Len(s) - 1)))

\* list.sort(key=lambda x: x.rerank_score, reverse=True): stable, descending.
RECURSIVE InsertByScore(_, _)
InsertByScore(x, s) ==
    IF s = <<>> THEN <<x>>
    ELSE IF x.rerank_score > Head(s).rerank_score THEN <<x>> \o s
    ELSE <<Head(s)>> \o InsertByScore(x, Tail(s))

RECURSIVE SortByScore(_)
SortByScore(s) ==
    IF s = <<>> THEN <<>>
    ELSE InsertByScore(s[Len(s)], SortByScore(SubSeq(s, 1, Len(s) - 1)))

\* The validation at the top of rerank: the error it raises, "" when none.
\* A validation that lets top_n = 0 through.
RerankValidationErrorZeroAllowed(query, top_n) ==
    IF query = <<>> \/ Strip(query) = <<>> THEN "Query cannot be empty"
    ELSE IF top_n < 0 THEN "top_n must be > 0"
    ELSE ""

\* lines 151-155: the argument checks, "" when both pass
RerankValidationError(query, top_n) ==
    IF query = <<>> \/ Strip(query) = <<>> THEN "Query cannot be empty"
    ELSE IF top_n <= 0 THEN "top_n must be > 0"
    ELSE ""

\* A try branch that truncates before it sorts.
RerankScoredTruncateFirst(chunks, scores, top_n) ==
    SortByScore(PySlice([i \in 1..Len(chunks) |-> ToRanked(chunks[i], scores[i])],
                        top_n))

\* The try branch: score, sort descending, truncate.
RerankScored(chunks, scores, top_n) ==
    PySlice(SortByScore([i \in 1..Len(chunks) |-> ToRanked(chunks[i], scores[i])]),
            top_n)

\* A fallback that keeps the retrieval order instead of sorting.
RerankFallbackUnsorted(chunks, top_n) ==
    PySlice([i \in 1..Len(chunks) |-> ToRanked(chunks[i], NoScore)], top_n)

\* The except branch: no scores, sort ascending by distance, truncate.
RerankFallback(chunks, top_n) ==
    PySlice(SortByDistance([i \in 1..Len(chunks) |-> ToRanked(chunks[i], NoScore)]),
            top_n)

\* What the relevance model does when rerank reaches it: loading it raises
\* (the model property turns that into RerankError), predict raises, or
\* predict returns one score per pair.
MaxScore == 1

ModelOutcomes(n) ==
    {[kind |-> "load_error", scores |-> <<>>],
     [kind |-> "predict_error", scores |-> <<>>]}
    \cup {[kind |-> "scores", scores |-> f] : f \in [1..n -> 0..MaxScore]}

ModelErrorMessage(model) ==
    IF model.kind = "load_error" THEN "Failed to initialize reranker model"
    ELSE "Prediction error"

RerankRaise(msg) == [raised |-> TRUE, error |-> msg, chunks |-> <<>>]
RerankReturn(chunks) == [raised |-> FALSE, error |-> "", chunks |-> chunks]

\* rerank without the except branch: a model error leaves the call.
RerankNoFallback(query, chunks, top_n, model) ==
    IF RerankValidationError(query, top_n) # ""
    THEN RerankRaise(RerankValidationError(query, top_n))
    ELSE IF chunks = <<>> THEN RerankReturn(<<>>)
    ELSE IF model.kind = "scores"
    THEN RerankReturn(RerankScored(chunks, model.scores, top_n))
    ELSE RerankRaise(ModelErrorMessage(model))

\* JapaneseReranker.rerank: validation, early return on no candidates, the
\* scored path, and the fallback when anything in the try block raises.
Rerank(query, chunks, top_n, model) ==
    IF RerankValidationError(query, top_n) # ""
    THEN RerankRaise(RerankValidationError(query, top_n))
    ELSE IF chunks = <<>> THEN RerankReturn(<<>>)
    ELSE IF model.kind = "scores"
    THEN RerankReturn(RerankScored(chunks, model.scores, top_n))
    ELSE RerankReturn(RerankFallback(chunks, top_n))

\* ------------------------------------------------------------------------
\* RAGPipeline.process_batch
\* ------------------------------------------------------------------------
VARIABLES
    table,              \* questions_df: the 'question' cell of every row
    hasQuestionCol,     \* 'question' in questions_df.columns
    enable_reranking,   \* self.enable_reranking
    rerank_top_n,       \* self.rerank_top_n
    progress_callback,  \* self.progress_callback is set
    pc,                 \* position of process_batch
    idx,                \* row of the for loop, 1-based
    results_df,         \* the output table, one record per row
    successful,         \* local counter
    failed,             \* local counter
    search_results,     \* process_single: result of searcher.search
    ranked_chunks,      \* process_single: chunks handed to the generator
    raisedBy,           \* per row: the stage that raised, "none" otherwise
    cbRaised,           \* the progress callback has raised
    escaped,            \* the exception that left process_batch, "none" otherwise
    batchResult,        \* the returned BatchResult
    cb_calls            \* per row: number of progress_callback invocations

batchVars == <<table, hasQuestionCol, enable_reranking, rerank_top_n,
               progress_callback, pc, idx, results_df, successful, failed,
               search_results, ranked_chunks, raisedBy, cbRaised, escaped,
               batchResult, cb_calls>>


\* answer / error of a row that was never written (None, no 'error' cell)
NoValue == "<none>"

NoBatchResult == [total_questions |-> -1, successful |-> -1, failed |-> -1]

\* results_df as prepared before the loop
PendingRow == [status |-> "pending", answer |-> NoValue, contexts |-> <<>>,
               error |-> NoValue]

\* SearchResult rows the store returns, nearest first
Hits(n) == [i \in 1..n |-> [chunk_id |-> i, distance |-> i - 1]]

\* An embed_query that lets the empty str through.
SearchAcceptsAnyStr(q) == q.isStr

\* embed_query accepts a non-empty str only
SearchAccepts(q) == q.isStr /\ q.text # <<>>

SearchRejectionMessage(q) ==
    IF ~q.isStr THEN "Query must be str, got float" ELSE "Query cannot be empty"

\* what AnswerGenerator.generate raises, by kind
GenerateErrors == {"AnswerGenerationError", "RateLimitError"}

GenerateErrorMessage(kind) ==
    IF kind = "RateLimitError" THEN "Rate limit exceeded after retries"
    ELSE "Failed to generate answer with model"

BatchIdle ==
    /\ table = <<>>
    /\ hasQuestionCol = TRUE
    /\ enable_reranking = FALSE
    /\ rerank_top_n = 1
    /\ progress_callback = FALSE
    /\ pc = "idle"
    /\ idx = 0
    /\ results_df = <<>>
    /\ successful = 0
    /\ failed = 0
    /\ search_results = <<>>
    /\ ranked_chunks = <<>>
    /\ raisedBy = <<>>
    /\ cbRaised = FALSE
    /\ escaped = "none"
    /\ batchResult = NoBatchResult
    /\ cb_calls = <<>>

BatchInit ==
    /\ table \in UNION {[1..n -> QuestionCells] : n \in 0..MaxRows}
    /\ hasQuestionCol \in BOOLEAN
    /\ enable_reranking \in BOOLEAN
    /\ rerank_top_n \in 0..MaxTopN
    /\ progress_callback \in BOOLEAN
    /\ pc = "start"
    /\ idx = 0
    /\ results_df = <<>>
    /\ successful = 0
    /\ failed = 0
    /\ search_results = <<>>
    /\ ranked_chunks = <<>>
    /\ raisedBy = [i \in 1..Len(table) |-> "none"]
    /\ cbRaised = FALSE
    /\ escaped = "none"
    /\ batchResult = NoBatchResult
    /\ cb_calls = [i \in 1..Len(table) |-> 0]

config == <<table, hasQuestionCol, enable_reranking, rerank_top_n, progress_callback>>

\* lines 267-268 and 299-300: progress_callback is invoked for row i
NotifyProgress(calls, i) == [calls EXCEPT ![i] = @ + 1]

\* process_single lines 178-190: reranking disabled, the first rerank_top_n
\* search results become RankedChunks with rerank_score=None
BypassRerank(results, top_n) ==
    PySlice([i \in 1..Len(results) |-> ToRanked(results[i], NoScore)], top_n)

\* lines 238-239: the column check fails
BatchRejectsTable ==
    /\ pc = "start"
    /\ ~hasQuestionCol
    /\ pc' = "raised"
    /\ escaped' = "ValueError"
    /\ UNCHANGED <<config, idx, results_df, successful, failed, search_results,
                   ranked_chunks, raisedBy, cbRaised, batchResult, cb_calls>>

\* A batch that prepares the result columns without the column check.
BatchStartUnchecked ==
    /\ pc = "start"
    /\ results_df' = [i \in 1..Len(table) |-> PendingRow]
    /\ successful' = 0
    /\ failed' = 0
    /\ idx' = 1
    /\ pc' = "row"
    /\ UNCHANGED <<config, search_results, ranked_chunks, raisedBy, cbRaised,
                   escaped, batchResult, cb_calls>>

\* lines 241-253: copy the table, add the result columns, reset the counters
BatchStart ==
    /\ pc = "start"
    /\ hasQuestionCol
    /\ results_df' = [i \in 1..Len(table) |-> PendingRow]
    /\ successful' = 0
    /\ failed' = 0
    /\ idx' = 1
    /\ pc' = "row"
    /\ UNCHANGED <<config, search_results, ranked_chunks, raisedBy, cbRaised,
                   escaped, batchResult, cb_calls>>

\* lines 256-268, no callback: straight on to process_single
RowBegin ==
    /\ pc = "row"
    /\ idx <= Len(table)
    /\ ~progress_callback
    /\ pc' = "search"
    /\ UNCHANGED <<config, idx, results_df, successful, failed, search_results,
                   ranked_chunks, raisedBy, cbRaised, escaped, batchResult, cb_calls>>

\* line 268: the message is built from question[:50], then the callback runs;
\* both happen outside the try block.
RowProgress ==
    /\ pc = "row"
    /\ idx <= Len(table)
    /\ progress_callback
    /\ IF ~table[idx].isStr
       THEN /\ pc' = "raised"
            /\ escaped' = "TypeError"
            /\ UNCHANGED <<cbRaised, cb_calls>>
       ELSE \E raises \in BOOLEAN :
              /\ cb_calls' = NotifyProgress(cb_calls, idx)
              /\ IF raises
                 THEN /\ pc' = "raised"
                      /\ escaped' = "CallbackError"
                      /\ cbRaised' = TRUE
                 ELSE /\ pc' = "search"
                      /\ UNCHANGED <<escaped, cbRaised>>
    /\ UNCHANGED <<config, idx, results_df, successful, failed, search_results,
                   ranked_chunks, raisedBy, batchResult>>

\* The except block without its counter.
HandleRowErrorUncounted(stage, msg) ==
    /\ results_df' = [results_df EXCEPT ![idx] =
                        [@ EXCEPT !.status = "failed", !.answer = "",
                                  !.contexts = <<>>, !.error = msg]]
    /\ UNCHANGED failed
    /\ raisedBy' = [raisedBy EXCEPT ![idx] = stage]
    /\ IF progress_callback
       THEN \E raises \in BOOLEAN :
              /\ cb_calls' = NotifyProgress(cb_calls, idx)
              /\ IF raises
                 THEN /\ pc' = "raised"
                      /\ escaped' = "CallbackError"
                      /\ cbRaised' = TRUE
                      /\ UNCHANGED idx
                 ELSE /\ pc' = "row"
                      /\ idx' = idx + 1
                      /\ UNCHANGED <<escaped, cbRaised>>
       ELSE /\ pc' = "row"
            /\ idx' = idx + 1
            /\ UNCHANGED <<escaped, cbRaised, cb_calls>>

\* lines 290-300: the except block of the row: record the failure, count
\* it, report it through the callback (which may raise), go to the next row.
HandleRowError(stage, msg) ==
    /\ results_df' = [results_df EXCEPT ![idx] =
                        [@ EXCEPT !.status = "failed", !.answer = "",
                                  !.contexts = <<>>, !.error = msg]]
    /\ failed' = failed + 1
    /\ raisedBy' = [raisedBy EXCEPT ![idx] = stage]
    /\ IF progress_callback
       THEN \E raises \in BOOLEAN :
              /\ cb_calls' = NotifyProgress(cb_calls, idx)
              /\ IF raises
                 THEN /\ pc' = "raised"
                      /\ escaped' = "CallbackError"
                      /\ cbRaised' = TRUE
                      /\ UNCHANGED idx
                 ELSE /\ pc' = "row"
                      /\ idx' = idx + 1
                      /\ UNCHANGED <<escaped, cbRaised>>
       ELSE /\ pc' = "row"
            /\ idx' = idx + 1
            /\ UNCHANGED <<escaped, cbRaised, cb_calls>>

\* process_single lines 160-167: searcher.search raises VectorSearchError
SearchRaises ==
    /\ pc = "search"
    /\ \E msg \in {"Vector search failed", SearchRejectionMessage(table[idx])} :
         /\ ~SearchAccepts(table[idx]) => msg = SearchRejectionMessage(table[idx])
         /\ SearchAccepts(table[idx]) => msg = "Vector search failed"
         /\ HandleRowError("search", msg)
    /\ UNCHANGED <<config, successful, search_results, ranked_chunks, batchResult>>

\* process_single lines 160-167: searcher.search returns its hits
SearchReturns ==
    /\ pc = "search"
    /\ SearchAccepts(table[idx])
    /\ \E n \in 0..MaxHits : search_results' = Hits(n)
    /\ pc' = "rerank"
    /\ UNCHANGED <<config, idx, results_df, successful, failed, ranked_chunks,
                   raisedBy, cbRaised, escaped, batchResult, cb_calls>>

\* process_single lines 171-177: reranker.rerank raises and the row's
\* except block takes over
RerankRaises ==
    /\ pc = "rerank"
    /\ enable_reranking
    /\ \E model \in ModelOutcomes(Len(search_results)) :
         LET r == Rerank(table[idx].text, search_results, rerank_top_n, model)
         IN  /\ r.raised
             /\ HandleRowError("rerank", r.error)
    /\ UNCHANGED <<config, successful, search_results, ranked_chunks, batchResult>>

\* process_single lines 171-177: reranker.rerank returns (no candidates,
\* scored, or fallback)
RerankReturns ==
    /\ pc = "rerank"
    /\ enable_reranking
    /\ \E model \in ModelOutcomes(Len(search_results)) :
         LET r == Rerank(table[idx].text, search_results, rerank_top_n, model)
         IN  /\ ~r.raised
             /\ ranked_chunks' = r.chunks
    /\ pc' = "generate"
    /\ UNCHANGED <<config, idx, results_df, successful, failed, search_results,
                   raisedBy, cbRaised, escaped, batchResult, cb_calls>>

\* process_single lines 178-190: reranking disabled, take the first
\* rerank_top_n search results without a score
RerankBypassed ==
    /\ pc = "rerank"
    /\ ~enable_reranking
    /\ ranked_chunks' = BypassRerank(search_results, rerank_top_n)
    /\ pc' = "generate"
    /\ UNCHANGED <<config, idx, results_df, successful, failed, search_results,
                   raisedBy, cbRaised, escaped, batchResult, cb_calls>>

\* process_single lines 193-199: generator.generate raises
GenerateRaises ==
    /\ pc = "generate"
    /\ \E kind \in GenerateErrors :
         HandleRowError("generate", GenerateErrorMessage(kind))
    /\ UNCHANGED <<config, successful, search_results, ranked_chunks, batchResult>>

\* process_single lines 193-217 and process_batch lines 278-288: the answer
\* is generated and the row is written
GenerateReturns ==
    /\ pc = "generate"
    /\ results_df' = [results_df EXCEPT ![idx] =
                        [@ EXCEPT !.status = "success", !.answer = "answer",
                                  !.contexts = [i \in 1..Len(ranked_chunks) |->
                                                  ranked_chunks[i].chunk_id]]]
    /\ successful' = successful + 1
    /\ idx' = idx + 1
    /\ pc' = "row"
    /\ UNCHANGED <<config, failed, search_results, ranked_chunks, raisedBy,
                   cbRaised, escaped, batchResult, cb_calls>>

\* lines 302-311: the loop is over, the BatchResult is returned
BatchReturns ==
    /\ pc = "row"
    /\ idx > Len(table)
    /\ batchResult' = [total_questions |-> Len(table), successful |-> successful,
                       failed |-> failed]
    /\ pc' = "returned"
    /\ UNCHANGED <<config, idx, results_df, successful, failed, search_results,
                   ranked_chunks, raisedBy, cbRaised, escaped, cb_calls>>

BatchNext ==
    \/ BatchRejectsTable
    \/ BatchStart
    \/ RowBegin
    \/ RowProgress
    \/ SearchRaises
    \/ SearchReturns
    \/ RerankRaises
    \/ RerankReturns
    \/ RerankBypassed
    \/ GenerateRaises
    \/ GenerateReturns
    \/ BatchReturns

\* ------------------------------------------------------------------------
\* RAGPipeline.process_single called directly (rag_pipeline.py lines 137-217)
\* ------------------------------------------------------------------------

VARIABLES
    ps_question,            \* the question argument
    ps_enable_reranking,    \* self.enable_reranking
    ps_rerank_top_n,        \* self.rerank_top_n
    ps_pc,                  \* position in process_single
    ps_search_results,      \* search_results
    ps_ranked_chunks,       \* ranked_chunks
    ps_calls,               \* collaborator calls made so far, with outcome
    ps_generate_input,      \* the contexts handed to generator.generate
    ps_result,              \* the RAGResult returned
    ps_error                \* the exception that left process_single

singleVars == <<ps_question, ps_enable_reranking, ps_rerank_top_n, ps_pc,
                ps_search_results, ps_ranked_chunks, ps_calls,
                ps_generate_input, ps_result, ps_error>>

singleInputs == <<ps_question, ps_enable_reranking, ps_rerank_top_n>>

\* no RAGResult was constructed
NoResult == [answer |-> NoValue, contexts |-> <<>>]

\* generator.generate was not called
NoGenerateInput == <<[chunk_id |-> 0, distance |-> 0, rerank_score |-> NoScore]>>

\* one collaborator call and how it ended ("returned" or the error raised)
Call(component, outcome) == [component |-> component, outcome |-> outcome]

SingleIdle ==
    /\ ps_question = StrCell(<<>>)
    /\ ps_enable_reranking = FALSE
    /\ ps_rerank_top_n = 1
    /\ ps_pc = "idle"
    /\ ps_search_results = <<>>
    /\ ps_ranked_chunks = <<>>
    /\ ps_calls = <<>>
    /\ ps_generate_input = NoGenerateInput
    /\ ps_result = NoResult
    /\ ps_error = "none"

\* __init__ (lines 104-135) stores enable_reranking and rerank_top_n as
\* given, without validation; process_single is then called with a question
SingleInit ==
    /\ ps_question \in QuestionCells
    /\ ps_enable_reranking \in BOOLEAN
    /\ ps_rerank_top_n \in -1..MaxTopN
    /\ ps_pc = "search"
    /\ ps_search_results = <<>>
    /\ ps_ranked_chunks = <<>>
    /\ ps_calls = <<>>
    /\ ps_generate_input = NoGenerateInput
    /\ ps_result = NoResult
    /\ ps_error = "none"

\* A pipeline that calls the reranker whatever enable_reranking says.
StageAfterSearchAlwaysRerank(enabled) == "rerank"

\* line 170: if self.enable_reranking
StageAfterSearch(enabled) == IF enabled THEN "rerank" ELSE "bypass"

\* A pipeline that catches the collaborator's error and carries on.
PropagateSwallowed(kind, next) ==
    /\ ps_pc' = next
    /\ UNCHANGED <<ps_error, ps_result>>

\* no try/except in process_single: the collaborator's exception leaves the
\* method, nothing after the call runs and no RAGResult is built
Propagate(kind, next) ==
    /\ ps_pc' = "raised"
    /\ ps_error' = kind
    /\ UNCHANGED ps_result

\* lines 160-167: searcher.search raises VectorSearchError
SingleSearchRaises ==
    /\ ps_pc = "search"
    /\ ps_calls' = Append(ps_calls, Call("search", "VectorSearchError"))
    /\ Propagate("VectorSearchError", StageAfterSearch(ps_enable_reranking))
    /\ UNCHANGED <<singleInputs, ps_search_results, ps_ranked_chunks,
                   ps_generate_input>>

\* lines 160-167: searcher.search returns its hits
SingleSearchReturns ==
    /\ ps_pc = "search"
    /\ SearchAccepts(ps_question)
    /\ \E n \in 0..MaxHits : ps_search_results' = Hits(n)
    /\ ps_calls' = Append(ps_calls, Call("search", "returned"))
    /\ ps_pc' = StageAfterSearch(ps_enable_reranking)
    /\ UNCHANGED <<singleInputs, ps_ranked_chunks, ps_generate_input,
                   ps_result, ps_error>>

\* lines 171-177: reranker.rerank raises RerankError
SingleRerankRaises ==
    /\ ps_pc = "rerank"
    /\ \E model \in ModelOutcomes(Len(ps_search_results)) :
         LET r == Rerank(ps_question.text, ps_search_results,
                         ps_rerank_top_n, model)
         IN  r.raised
    /\ ps_calls' = Append(ps_calls, Call("rerank", "RerankError"))
    /\ Propagate("RerankError", "generate")
    /\ UNCHANGED <<singleInputs, ps_search_results, ps_ranked_chunks,
                   ps_generate_input>>

\* lines 171-177: reranker.rerank returns
SingleRerankReturns ==
    /\ ps_pc = "rerank"
    /\ \E model \in ModelOutcomes(Len(ps_search_results)) :
         LET r == Rerank(ps_question.text, ps_search_results,
                         ps_rerank_top_n, model)
         IN  /\ ~r.raised
             /\ ps_ranked_chunks' = r.chunks
    /\ ps_calls' = Append(ps_calls, Call("rerank", "returned"))
    /\ ps_pc' = "generate"
    /\ UNCHANGED <<singleInputs, ps_search_results, ps_generate_input,
                   ps_result, ps_error>>

\* lines 178-190: reranking disabled, no collaborator is called
SingleRerankBypassed ==
    /\ ps_pc = "bypass"
    /\ ps_ranked_chunks' = BypassRerank(ps_search_results, ps_rerank_top_n)
    /\ ps_pc' = "generate"
    /\ UNCHANGED <<singleInputs, ps_search_results, ps_calls,
                   ps_generate_input, ps_result, ps_error>>

\* lines 193-199: generator.generate(question, ranked_chunks) raises
SingleGenerateRaises ==
    /\ ps_pc = "generate"
    /\ ps_generate_input' = ps_ranked_chunks
    /\ \E kind \in GenerateErrors :
         /\ ps_calls' = Append(ps_calls, Call("generate", kind))
         /\ Propagate(kind, "returned")
    /\ UNCHANGED <<singleInputs, ps_search_results, ps_ranked_chunks>>

\* lines 193-217: the answer is generated and the RAGResult is returned
SingleGenerateReturns ==
    /\ ps_pc = "generate"
    /\ ps_generate_input' = ps_ranked_chunks
    /\ ps_calls' = Append(ps_calls, Call("generate", "returned"))
    /\ ps_result' = [answer |-> "answer",
                     contexts |-> [i \in 1..Len(ps_ranked_chunks) |->
                                     ps_ranked_chunks[i].chunk_id]]
    /\ ps_pc' = "returned"
    /\ UNCHANGED <<singleInputs, ps_search_results, ps_ranked_chunks, ps_error>>

SingleNext ==
    \/ SingleSearchRaises
    \/ SingleSearchReturns
    \/ SingleRerankRaises
    \/ SingleRerankReturns
    \/ SingleRerankBypassed
    \/ SingleGenerateRaises
    \/ SingleGenerateReturns

\* ------------------------------------------------------------------------
\* AnswerGenerator.generate and _execute_with_retry
\* ------------------------------------------------------------------------
MaxRetriesBound == 3
MaxRetryDelay == 3

\* The model identifiers are strings: sequences of characters.
\* COHERE_MODELS, lines 87-90
COHERE_MODELS ==
    <<<<"c", "o", "h", "e", "r", "e", ".", "c", "o", "m", "m", "a", "n",
        "d", "-", "a", "-", "0", "3", "-", "2", "0", "2", "5">>,
      <<"c", "o", "h", "e", "r", "e", ".", "c", "o", "m", "m", "a", "n",
        "d", "-", "r", "-", "p", "l", "u", "s", "-", "0", "8", "-",
        "2", "0", "2", "4">>>>

\* GENERIC_MODELS, lines 93-103
GENERIC_MODELS ==
    <<<<"m", "e", "t", "a", ".", "l", "l", "a", "m", "a", "-", "3", ".",
        "3", "-", "7", "0", "b", "-", "i", "n", "s", "t", "r", "u",
        "c", "t">>,
      <<"x", "a", "i", ".", "g", "r", "o", "k", "-", "4", "-", "f", "a",
        "s", "t", "-", "n", "o", "n", "-", "r", "e", "a", "s", "o",
        "n", "i", "n", "g">>,
      <<"x", "a", "i", ".", "g", "r", "o", "k", "-", "4", "-", "f", "a",
        "s", "t", "-", "r", "e", "a", "s", "o", "n", "i", "n", "g">>,
      <<"x", "a", "i", ".", "g", "r", "o", "k", "-", "4">>,
      <<"g", "o", "o", "g", "l", "e", ".", "g", "e", "m", "i", "n", "i",
        "-", "2", ".", "5", "-", "p", "r", "o">>,
      <<"g", "o", "o", "g", "l", "e", ".", "g", "e", "m", "i", "n", "i",
        "-", "2", ".", "5", "-", "f", "l", "a", "s", "h">>,
      <<"g", "o", "o", "g", "l", "e", ".", "g", "e", "m", "i", "n", "i",
        "-", "2", ".", "5", "-", "f", "l", "a", "s", "h", "-", "l",
        "i", "t", "e">>,
      <<"o", "p", "e", "n", "a", "i", ".", "g", "p", "t", "-", "o", "s",
        "s", "-", "2", "0", "b">>,
      <<"o", "p", "e", "n", "a", "i", ".", "g", "p", "t", "-", "o", "s",
        "s", "-", "1", "2", "0", "b">>>>

\* identifiers outside the tables: other spellings of a Cohere name, a name
\* with the word inside, a near miss
OtherModelIds ==
    {<<"C", "o", "h", "e", "r", "e", ".", "x">>,
     <<"C", "O", "H", "E", "R", "E">>,
     <<"x", "-", "c", "o", "h", "e", "r", "e">>,
     <<"c", "o", "h", "e", "r">>}

Range(seq) == {seq[i] : i \in 1..Len(seq)}

\* model=None
NoModel == <<"<None>">>

\* the model argument of generate: None, '', or an identifier
ModelArguments ==
    {NoModel, <<>>} \cup Range(COHERE_MODELS) \cup Range(GENERIC_MODELS)
        \cup OtherModelIds

\* MAX_TOKENS_LIMIT, lines 106-109
MAX_TOKENS_LIMIT == [cohere |-> 4000, default |-> 128000]

\* the max_tokens argument: below, at and above each limit
RequestedMaxTokens ==
    {1, MAX_TOKENS_LIMIT.cohere, MAX_TOKENS_LIMIT.cohere + 1,
     MAX_TOKENS_LIMIT.default, MAX_TOKENS_LIMIT.default + 1}

\* str.lower() on one character
LowerChar(c) ==
    CASE c = "A" -> "a"
      [] c = "B" -> "b"
      [] c = "C" -> "c"
      [] c = "D" -> "d"
      [] c = "E" -> "e"
      [] c = "F" -> "f"
      [] c = "G" -> "g"
      [] c = "H" -> "h"
      [] c = "I" -> "i"
      [] c = "J" -> "j"
      [] c = "K" -> "k"
      [] c = "L" -> "l"
      [] c = "M" -> "m"
      [] c = "N" -> "n"
      [] c = "O" -> "o"
      [] c = "P" -> "p"
      [] c = "Q" -> "q"
      [] c = "R" -> "r"
      [] c = "S" -> "s"
      [] c = "T" -> "t"
      [] c = "U" -> "u"
      [] c = "V" -> "v"
      [] c = "W" -> "w"
      [] c = "X" -> "x"
      [] c = "Y" -> "y"
      [] c = "Z" -> "z"
      [] OTHER -> c

\* str.lower()
Lower(str) == [i \in 1..Len(str) |-> LowerChar(str[i])]

\* sub in str
Contains(str, sub) ==
    \E k \in 0..(Len(str) - Len(sub)) : SubSeq(str, k + 1, k + Len(sub)) = sub

CohereWord == <<"c", "o", "h", "e", "r", "e">>

\* line 181: model_to_use = model if model else self.default_model
ModelToUse(model, default_model) ==
    IF model # NoModel /\ model # <<>> THEN model ELSE default_model

\* A limit chosen by a case-sensitive test.
GetAdjustedMaxTokensCaseSensitive(model, max_tokens) ==
    LET limit == IF Contains(model, CohereWord)
                 THEN MAX_TOKENS_LIMIT.cohere
                 ELSE MAX_TOKENS_LIMIT.default
    IN  IF max_tokens < limit THEN max_tokens ELSE limit

\* _get_adjusted_max_tokens, lines 231-248
GetAdjustedMaxTokens(model, max_tokens) ==
    LET limit == IF Contains(Lower(model), CohereWord)
                 THEN MAX_TOKENS_LIMIT.cohere
                 ELSE MAX_TOKENS_LIMIT.default
    IN  IF max_tokens < limit THEN max_tokens ELSE limit

\* A dispatch that compares without lower().
RequestFamilyCaseSensitive(model_to_use) ==
    IF \E cohere_model \in {CohereWord} : Contains(model_to_use, cohere_model)
    THEN "CohereChatRequest"
    ELSE "GenericChatRequest"

\* lines 193-212: any(cohere_model in model_to_use.lower() for cohere_model
\* in ['cohere']) chooses _generate_with_cohere, else _generate_with_generic
RequestFamily(model_to_use) ==
    IF \E cohere_model \in {CohereWord} :
           Contains(Lower(model_to_use), cohere_model)
    THEN "CohereChatRequest"
    ELSE "GenericChatRequest"

\* no request was built
NoRequest == [family |-> "none", model |-> <<>>, max_tokens |-> 0]

\* lines 181-212: the request that generate hands to the backend
BuildRequest(model, default_model, max_tokens) ==
    LET model_to_use == ModelToUse(model, default_model)
    IN  [family |-> RequestFamily(model_to_use),
         model |-> model_to_use,
         max_tokens |-> GetAdjustedMaxTokens(model_to_use, max_tokens)]

VARIABLES
    max_retries,      \* self.max_retries (>= 0, checked by the constructor)
    retry_delay,      \* self.retry_delay (> 0, checked by the constructor)
    gen_pc,           \* position of generate
    attempt,          \* loop variable of _execute_with_retry
    backend_calls,    \* number of genai_client.chat calls made
    backend_log,      \* outcome of every backend call, in order
    sleeps,           \* argument of every time.sleep call, in order
    gen_error,        \* kind of the exception generate raised, "none" otherwise
    gen_answer,       \* the answer generate returned, NoValue otherwise
    gen_model,        \* the model argument
    default_model,    \* self.default_model
    gen_max_tokens,   \* the max_tokens argument
    gen_request       \* the request handed to the backend

genVars == <<max_retries, retry_delay, gen_pc, attempt, backend_calls,
             backend_log, sleeps, gen_error, gen_answer, gen_model,
             default_model, gen_max_tokens, gen_request>>

genInputs == <<gen_model, default_model, gen_max_tokens>>

\* Outcomes of one genai_client.chat call: a response, or an exception that
\* may carry a numeric status attribute.
BackendOk == [ok |-> TRUE, hasStatus |-> FALSE, status |-> 0]
BackendError(st) == [ok |-> FALSE, hasStatus |-> TRUE, status |-> st]
BackendErrorNoStatus == [ok |-> FALSE, hasStatus |-> FALSE, status |-> 0]

RateLimitStatus == 429
ServerErrorStatus == 500

BackendFailures ==
    {BackendError(RateLimitStatus), BackendError(ServerErrorStatus),
     BackendErrorNoStatus}

\* A classification that retries on every exception carrying a status.
IsRateLimitAnyStatus(e) == e.hasStatus

\* line 403: hasattr(e, 'status') and e.status == 429
IsRateLimit(e) == e.hasStatus /\ e.status = RateLimitStatus

RECURSIVE Pow2(_)
Pow2(n) == IF n = 0 THEN 1 ELSE 2 * Pow2(n - 1)

\* A linear back-off.
WaitTimeLinear(delay, att) == delay * (att + 1)

\* A backoff that is one doubling ahead.
WaitTimeShifted(delay, att) == delay * Pow2(att + 1)

\* line 406: wait_time = self.retry_delay * (2 ** attempt)
WaitTime(delay, att) == delay * Pow2(att)

\* A generate that wraps every exception, RateLimitError included.
WrapGenerateErrorAlways(kind) == "AnswerGenerationError"

\* generate lines 223-229: RateLimitError passes, anything else is wrapped
\* into AnswerGenerationError
WrapGenerateError(kind) ==
    IF kind = "RateLimitError" THEN "RateLimitError" ELSE "AnswerGenerationError"

GenerateIdle ==
    /\ max_retries = 0
    /\ retry_delay = 1
    /\ gen_pc = "idle"
    /\ attempt = 0
    /\ backend_calls = 0
    /\ backend_log = <<>>
    /\ sleeps = <<>>
    /\ gen_error = "none"
    /\ gen_answer = NoValue
    /\ gen_model = NoModel
    /\ default_model = COHERE_MODELS[1]
    /\ gen_max_tokens = MAX_TOKENS_LIMIT.default
    /\ gen_request = NoRequest

GenerateInit ==
    /\ max_retries \in 0..MaxRetriesBound
    /\ retry_delay \in 1..MaxRetryDelay
    /\ gen_pc = "start"
    /\ attempt = 0
    /\ backend_calls = 0
    /\ backend_log = <<>>
    /\ sleeps = <<>>
    /\ gen_error = "none"
    /\ gen_answer = NoValue
    /\ gen_model \in ModelArguments
    /\ default_model \in {COHERE_MODELS[1], GENERIC_MODELS[1]}
    /\ gen_max_tokens \in RequestedMaxTokens
    /\ gen_request = NoRequest

\* generate lines 180-212 up to the first backend call: the prompt and the
\* request are built and _execute_with_retry enters its loop
GenerateStart ==
    /\ gen_pc = "start"
    /\ gen_request' = BuildRequest(gen_model, default_model, gen_max_tokens)
    /\ gen_pc' = "attempt"
    /\ attempt' = 0
    /\ UNCHANGED <<max_retries, retry_delay, backend_calls, backend_log, sleeps,
                   gen_error, gen_answer, genInputs>>

\* line 400: func() returns; generate extracts the text and returns
BackendReturns ==
    /\ gen_pc = "attempt"
    /\ backend_calls' = backend_calls + 1
    /\ backend_log' = Append(backend_log, BackendOk)
    /\ gen_answer' = "answer"
    /\ gen_pc' = "returned"
    /\ UNCHANGED <<genInputs, gen_request, max_retries, retry_delay, attempt,
                   sleeps, gen_error>>

\* lines 403-408: rate limited with retries left: sleep, next attempt
BackendRateLimitedRetry ==
    /\ gen_pc = "attempt"
    /\ \E e \in BackendFailures :
         /\ IsRateLimit(e)
         /\ attempt < max_retries
         /\ backend_log' = Append(backend_log, e)
    /\ backend_calls' = backend_calls + 1
    /\ sleeps' = Append(sleeps, WaitTime(retry_delay, attempt))
    /\ attempt' = attempt + 1
    /\ UNCHANGED <<genInputs, gen_request, max_retries, retry_delay, gen_pc,
                   gen_error, gen_answer>>

\* lines 409-413: rate limited on the last attempt: RateLimitError
BackendRateLimitedGiveUp ==
    /\ gen_pc = "attempt"
    /\ \E e \in BackendFailures :
         /\ IsRateLimit(e)
         /\ ~(attempt < max_retries)
         /\ backend_log' = Append(backend_log, e)
    /\ backend_calls' = backend_calls + 1
    /\ gen_error' = WrapGenerateError("RateLimitError")
    /\ gen_pc' = "raised"
    /\ UNCHANGED <<genInputs, gen_request, max_retries, retry_delay, attempt,
                   sleeps, gen_answer>>

\* lines 414-416: any other exception is re-raised at once
BackendFails ==
    /\ gen_pc = "attempt"
    /\ \E e \in BackendFailures :
         /\ ~IsRateLimit(e)
         /\ backend_log' = Append(backend_log, e)
    /\ backend_calls' = backend_calls + 1
    /\ gen_error' = WrapGenerateError("BackendException")
    /\ gen_pc' = "raised"
    /\ UNCHANGED <<genInputs, gen_request, max_retries, retry_delay, attempt,
                   sleeps, gen_answer>>

GenerateNext ==
    \/ GenerateStart
    \/ BackendReturns
    \/ BackendRateLimitedRetry
    \/ BackendRateLimitedGiveUp
    \/ BackendFails

\* ------------------------------------------------------------------------
\* JapaneseReranker.rerank, one call
\* ------------------------------------------------------------------------
MaxCandidates == 3
MaxDistance == 2

VARIABLES
    rr_query,     \* query
    rr_chunks,    \* chunks: the candidates, in the order passed
    rr_top_n,     \* top_n
    rr_model,     \* what the relevance model does if the call reaches it
    rr_pc,        \* "ready" before the call, "done" after it
    rr_model_calls, \* times the call loaded or invoked the relevance model
    rr_result     \* the outcome of the call

rerankVars == <<rr_query, rr_chunks, rr_top_n, rr_model, rr_pc, rr_result,
                rr_model_calls>>

rerankInputs == <<rr_query, rr_chunks, rr_top_n, rr_model>>

QueryTexts == {<<>>, <<" ">>, <<"a">>, <<" ", "a">>}

\* candidate lists: chunk_id is the position in the list, any distances
CandidateLists ==
    UNION {{[i \in 1..n |-> [chunk_id |-> i, distance |-> d[i]]] :
              d \in [1..n -> 0..MaxDistance]} : n \in 0..MaxCandidates}

RerankIdle ==
    /\ rr_query = <<>>
    /\ rr_chunks = <<>>
    /\ rr_top_n = 0
    /\ rr_model = [kind |-> "load_error", scores |-> <<>>]
    /\ rr_pc = "idle"
    /\ rr_result = RerankReturn(<<>>)
    /\ rr_model_calls = 0

RerankInit ==
    /\ rr_query \in QueryTexts
    /\ rr_chunks \in CandidateLists
    /\ rr_top_n \in -1..(MaxCandidates + 1)
    /\ rr_model \in ModelOutcomes(Len(rr_chunks))
    /\ rr_pc = "ready"
    /\ rr_result = RerankReturn(<<>>)
    /\ rr_model_calls = 0

RerankReachesModel ==
    /\ RerankValidationError(rr_query, rr_top_n) = ""
    /\ rr_chunks # <<>>

\* lines 151-155: the arguments are rejected
RerankCallRejected ==
    /\ rr_pc = "ready"
    /\ RerankValidationError(rr_query, rr_top_n) # ""
    /\ rr_result' = Rerank(rr_query, rr_chunks, rr_top_n, rr_model)
    /\ rr_pc' = "done"
    /\ UNCHANGED <<rerankInputs, rr_model_calls>>

\* lines 157-159: no candidates
RerankCallEmpty ==
    /\ rr_pc = "ready"
    /\ RerankValidationError(rr_query, rr_top_n) = ""
    /\ rr_chunks = <<>>
    /\ rr_result' = Rerank(rr_query, rr_chunks, rr_top_n, rr_model)
    /\ rr_pc' = "done"
    /\ UNCHANGED <<rerankInputs, rr_model_calls>>

\* lines 161-189: the model scores the pairs
RerankCallScored ==
    /\ rr_pc = "ready"
    /\ RerankReachesModel
    /\ rr_model.kind = "scores"
    /\ rr_result' = Rerank(rr_query, rr_chunks, rr_top_n, rr_model)
    /\ rr_pc' = "done"
    /\ rr_model_calls' = rr_model_calls + 1
    /\ UNCHANGED rerankInputs

\* lines 161-170 and 191-211: loading or scoring raises
RerankCallModelFails ==
    /\ rr_pc = "ready"
    /\ RerankReachesModel
    /\ rr_model.kind # "scores"
    /\ rr_result' = Rerank(rr_query, rr_chunks, rr_top_n, rr_model)
    /\ rr_pc' = "done"
    /\ rr_model_calls' = rr_model_calls + 1
    /\ UNCHANGED rerankInputs

RerankNext ==
    \/ RerankCallRejected
    \/ RerankCallEmpty
    \/ RerankCallScored
    \/ RerankCallModelFails

\* ------------------------------------------------------------------------
\* VectorSearcher.search
\* ------------------------------------------------------------------------
MaxTopK == 2

VARIABLES
    vs_query,       \* query: a str or something else
    vs_top_k,       \* top_k argument, NoTopK for None
    vs_self_top_k,  \* self.top_k (> 0, checked by the constructor)
    vs_filter,      \* filtering argument, NoFilter for None
    vs_pc,          \* position of search
    conn_open,      \* the connection opened by this call is open
    cursor,         \* "unbound", "open" or "closed"
    pending,        \* what the try body left for after finally
    vs_result,      \* the returned list
    vs_error,       \* kind of the exception search raised, "none" otherwise
    vs_cause,       \* the failure the raised error was built from
    embed_calls,    \* number of embedder.embed_query calls
    connect_calls   \* number of oracledb.connect calls

searchVars == <<vs_query, vs_top_k, vs_self_top_k, vs_filter, vs_pc, conn_open,
                cursor, pending, vs_result, vs_error, vs_cause, embed_calls,
                connect_calls>>

searchInputs == <<vs_query, vs_top_k, vs_self_top_k, vs_filter>>

\* top_k=None
NoTopK == -100
\* filtering=None
NoFilter == "<None>"

\* The stored chunks the query ranks: id, distance to the query, category.
StoreChunks ==
    {[chunk_id |-> 1, distance |-> 2, filtering |-> "manual"],
     [chunk_id |-> 2, distance |-> 0, filtering |-> "faq"],
     [chunk_id |-> 3, distance |-> 1, filtering |-> "manual"],
     [chunk_id |-> 4, distance |-> 1, filtering |-> "faq"]}

\* line 177: top_k defaults to self.top_k
EffectiveTopK == IF vs_top_k = NoTopK THEN vs_self_top_k ELSE vs_top_k

\* A statement without the WHERE clause.
MatchingChunksUnfiltered == StoreChunks

\* WHERE s.filtering = :filtering, present only when filtering is truthy
MatchingChunks ==
    IF vs_filter = NoFilter \/ vs_filter = ""
    THEN StoreChunks
    ELSE {c \in StoreChunks : c.filtering = vs_filter}

\* ORDER BY distance FETCH FIRST :top_k ROWS ONLY: the store answers with
\* any nearest-first listing of the matching chunks, cut to top_k
StoreAnswers ==
    {s \in UNION {[1..n -> MatchingChunks] : n \in 0..Cardinality(MatchingChunks)} :
        /\ Len(s) = (IF EffectiveTopK < Cardinality(MatchingChunks)
                     THEN EffectiveTopK ELSE Cardinality(MatchingChunks))
        /\ \A i, j \in 1..Len(s) : i < j =>
              /\ s[i] # s[j]
              /\ s[i].distance <= s[j].distance
        /\ \A c \in MatchingChunks :
              (\A i \in 1..Len(s) : s[i] # c) =>
                 \A i \in 1..Len(s) : s[i].distance <= c.distance}

SearchIdle ==
    /\ vs_query = NaNCell
    /\ vs_top_k = NoTopK
    /\ vs_self_top_k = 1
    /\ vs_filter = NoFilter
    /\ vs_pc = "idle"
    /\ conn_open = FALSE
    /\ cursor = "unbound"
    /\ pending = "none"
    /\ vs_result = <<>>
    /\ vs_error = "none"
    /\ vs_cause = "none"
    /\ embed_calls = 0
    /\ connect_calls = 0

SearchInit ==
    /\ vs_query \in QuestionCells
    /\ vs_top_k \in {NoTopK} \cup (-1..MaxTopK)
    /\ vs_self_top_k \in 1..MaxTopK
    /\ vs_filter \in {NoFilter, "", "manual"}
    /\ vs_pc = "start"
    /\ conn_open = FALSE
    /\ cursor = "unbound"
    /\ pending = "none"
    /\ vs_result = <<>>
    /\ vs_error = "none"
    /\ vs_cause = "none"
    /\ embed_calls = 0
    /\ connect_calls = 0

\* what the outer except clauses make of a failure: VectorSearchError is
\* re-raised, anything else is wrapped with the failure as its cause
SearchRaise(cause) ==
    /\ vs_pc' = "raised"
    /\ vs_error' = "VectorSearchError"
    /\ vs_cause' = cause

\* lines 177-180 and 139-144: top_k <= 0, a query that is not a str, or an
\* empty query
SearchRejects ==
    /\ vs_pc = "start"
    /\ \/ /\ EffectiveTopK <= 0
          /\ SearchRaise("top_k must be > 0")
       \/ /\ EffectiveTopK > 0
          /\ ~SearchAccepts(vs_query)
          /\ SearchRaise(SearchRejectionMessage(vs_query))
    /\ UNCHANGED <<searchInputs, conn_open, cursor, pending, vs_result,
                   embed_calls, connect_calls>>

\* line 146: the embedder cannot be created or the embedding call fails
EmbedFails ==
    /\ vs_pc = "start"
    /\ EffectiveTopK > 0
    /\ SearchAccepts(vs_query)
    /\ \E cause \in {"embedder init failed", "embedding failed"} :
         /\ SearchRaise(cause)
         /\ embed_calls' = (IF cause = "embedding failed"
                            THEN embed_calls + 1 ELSE embed_calls)
    /\ UNCHANGED <<searchInputs, conn_open, cursor, pending, vs_result,
                   connect_calls>>

\* lines 183-222: the query is embedded and the statement is built
EmbedReturns ==
    /\ vs_pc = "start"
    /\ EffectiveTopK > 0
    /\ SearchAccepts(vs_query)
    /\ embed_calls' = embed_calls + 1
    /\ vs_pc' = "connect"
    /\ UNCHANGED <<searchInputs, conn_open, cursor, pending, vs_result,
                   vs_error, vs_cause, connect_calls>>

\* line 225: oracledb.connect raises
ConnectFails ==
    /\ vs_pc = "connect"
    /\ connect_calls' = connect_calls + 1
    /\ SearchRaise("connect failed")
    /\ UNCHANGED <<searchInputs, conn_open, cursor, pending, vs_result,
                   embed_calls>>

\* line 225: the connection is open
ConnectReturns ==
    /\ vs_pc = "connect"
    /\ connect_calls' = connect_calls + 1
    /\ conn_open' = TRUE
    /\ vs_pc' = "cursor"
    /\ UNCHANGED <<searchInputs, cursor, pending, vs_result, vs_error, vs_cause,
                   embed_calls>>

\* line 227: connection.cursor() raises; the finally block runs with the
\* name cursor unbound
CursorFails ==
    /\ vs_pc = "cursor"
    /\ pending' = "cursor failed"
    /\ vs_pc' = "finally"
    /\ UNCHANGED <<searchInputs, conn_open, cursor, vs_result, vs_error,
                   vs_cause, embed_calls, connect_calls>>

\* line 227: the cursor is created
CursorReturns ==
    /\ vs_pc = "cursor"
    /\ cursor' = "open"
    /\ vs_pc' = "execute"
    /\ UNCHANGED <<searchInputs, conn_open, pending, vs_result, vs_error,
                   vs_cause, embed_calls, connect_calls>>

\* lines 228-248: execute, fetchall or the conversion of a row raises
QueryFails ==
    /\ vs_pc = "execute"
    /\ \E cause \in {"query failed", "malformed row"} : pending' = cause
    /\ vs_pc' = "finally"
    /\ UNCHANGED <<searchInputs, conn_open, cursor, vs_result, vs_error,
                   vs_cause, embed_calls, connect_calls>>

\* lines 228-250: the rows are fetched and converted
QueryReturns ==
    /\ vs_pc = "execute"
    /\ \E rows \in StoreAnswers :
         vs_result' = [i \in 1..Len(rows) |->
                         [chunk_id |-> rows[i].chunk_id,
                          distance |-> rows[i].distance]]
    /\ pending' = "return"
    /\ vs_pc' = "finally"
    /\ UNCHANGED <<searchInputs, conn_open, cursor, vs_error, vs_cause,
                   embed_calls, connect_calls>>

\* lines 252-254: cursor.close() fails, because the name is unbound
\* (UnboundLocalError) or because close itself raises; connection.close()
\* is not reached
FinallyCursorCloseFails ==
    /\ vs_pc = "finally"
    /\ \/ /\ cursor = "unbound"
          /\ SearchRaise("UnboundLocalError")
       \/ /\ cursor = "open"
          /\ SearchRaise("cursor close failed")
    /\ vs_result' = <<>>
    /\ UNCHANGED <<searchInputs, conn_open, cursor, pending, embed_calls,
                   connect_calls>>

\* lines 252-254: both closes run; then the try body's return or exception
\* takes effect
FinallyCloses ==
    /\ vs_pc = "finally"
    /\ cursor = "open"
    /\ cursor' = "closed"
    /\ conn_open' = FALSE
    /\ IF pending = "return"
       THEN /\ vs_pc' = "returned"
            /\ UNCHANGED <<vs_error, vs_cause>>
       ELSE SearchRaise(pending)
    /\ UNCHANGED <<searchInputs, pending, vs_result, embed_calls, connect_calls>>

SearchNext ==
    \/ SearchRejects
    \/ EmbedFails
    \/ EmbedReturns
    \/ ConnectFails
    \/ ConnectReturns
    \/ CursorFails
    \/ CursorReturns
    \/ QueryFails
    \/ QueryReturns
    \/ FinallyCursorCloseFails
    \/ FinallyCloses

\* ------------------------------------------------------------------------
\* The context listing: AnswerGenerator._build_prompt (answer_generator.py
\* lines 250-285), RAGPipeline._format_contexts_for_storage (rag_pipeline.py
\* lines 360-374) and RAGPipeline._parse_contexts_for_evaluation (376-408).
\* A str is the sequence of its characters; a fixed literal of the source is
\* one element.
\* ------------------------------------------------------------------------
MaxChunks == 2
MaxTextLen == 1

\* the literal '[ドキュメント' that opens a tag and that the parser looks for
Marker == "[DOC"

\* characters of a chunk text: a letter, a line break, and the marker literal
TextChars == {"x", "\n", Marker}

Filenames == {"a.pdf", "b.pdf"}

Texts == UNION {[1..n -> TextChars] : n \in 0..MaxTextLen}

\* the fields of a RankedChunk that the listing uses
ContextChunks == [filename : Filenames, chunk_text : Texts]

ChunkLists == UNION {[1..n -> ContextChunks] : n \in 0..MaxChunks}

Digits == <<"0", "1", "2", "3", "4", "5", "6", "7", "8", "9">>

\* f"{n}" for n >= 0: decimal digits, most significant first
RECURSIVE DecStr(_)
DecStr(n) ==
    IF n < 10 THEN <<Digits[n + 1]>>
    ELSE DecStr(n \div 10) \o <<Digits[(n % 10) + 1]>>

\* f"[ドキュメント {i+1}: {chunk.filename}]" with position = i+1
Header(position, filename) ==
    <<Marker, " ">> \o DecStr(position) \o <<":", " ", filename, "]">>

\* f"[ドキュメント {i+1}: {chunk.filename}]\n{chunk.chunk_text}"
Block(position, chunk) ==
    Header(position, chunk.filename) \o <<"\n">> \o chunk.chunk_text

\* sep.join(parts)
RECURSIVE Join(_, _)
Join(sep, parts) ==
    IF parts = <<>> THEN <<>>
    ELSE IF Len(parts) = 1 THEN parts[1]
    ELSE parts[1] \o sep \o Join(sep, Tail(parts))

\* A prompt that lists the chunks last to first.
PromptContextsReversed(contexts) ==
    Join(<<"\n", "\n">>,
         [i \in 1..Len(contexts) |->
            Block(Len(contexts) + 1 - i, contexts[Len(contexts) + 1 - i])])

\* _build_prompt lines 267-270: contexts_text
PromptContexts(contexts) ==
    Join(<<"\n", "\n">>, [i \in 1..Len(contexts) |-> Block(i, contexts[i])])

\* the fixed lines of the prompt template
Instruction == "<instruction>"
ReferenceHeading == "<reference documents>"
QuestionHeading == "<question>"
AnswerHeading == "<answer>"

\* _build_prompt lines 273-284: the f-string template
BuildPrompt(query, contexts, answer_prompt) ==
    <<Instruction, "\n", "\n", ReferenceHeading, "\n">>
        \o PromptContexts(contexts)
        \o <<"\n", "\n", QuestionHeading, "\n">> \o query
        \o <<"\n", "\n", AnswerHeading, "\n">> \o answer_prompt \o <<"\n">>

\* _format_contexts_for_storage lines 371-374
FormatContextsForStorage(chunks) ==
    Join(<<"\n", "\n">>, [i \in 1..Len(chunks) |-> Block(i, chunks[i])])

\* str.split('\n')
RECURSIVE SplitLines(_)
SplitLines(str) ==
    IF \A k \in 1..Len(str) : str[k] # "\n" THEN <<str>>
    ELSE LET k == CHOOSE k \in 1..Len(str) :
                      /\ str[k] = "\n"
                      /\ \A j \in 1..(k - 1) : str[j] # "\n"
         IN  <<SubSeq(str, 1, k - 1)>> \o SplitLines(SubSeq(str, k + 1, Len(str)))

\* line.startswith('[ドキュメント')
StartsWithMarker(line) == line # <<>> /\ line[1] = Marker

\* lines 392-394 and 399-401: if current_doc: append current_doc.strip()
CloseDoc(docs, current_doc) ==
    IF current_doc # <<>> THEN Append(docs, Strip(current_doc)) ELSE docs

\* lines 391-401: the loop over the lines and the last document
RECURSIVE ParseLines(_, _, _)
ParseLines(lines, individual_docs, current_doc) ==
    IF lines = <<>> THEN CloseDoc(individual_docs, current_doc)
    ELSE IF StartsWithMarker(Head(lines))
    THEN ParseLines(Tail(lines), CloseDoc(individual_docs, current_doc),
                    Head(lines) \o <<"\n">>)
    ELSE ParseLines(Tail(lines), individual_docs,
                    current_doc \o Head(lines) \o <<"\n">>)

\* _parse_contexts_for_evaluation lines 386-403, for a str argument
ParseContextsForEvaluation(contexts_str) ==
    IF contexts_str = <<>> THEN <<(<<>>)>>
    ELSE LET individual_docs == ParseLines(SplitLines(contexts_str), <<>>, <<>>)
         IN  IF individual_docs # <<>> THEN individual_docs
             ELSE <<contexts_str>>

VARIABLES
    ctx_chunks,     \* ranked_chunks of one question, in the caller's order
    ctx_query,      \* the question text
    ctx_pc,         \* "generate", "format", "stored", "parsed"
    ctx_prompt,     \* the prompt _build_prompt produced
    ctx_stored,     \* RAGResult.contexts, the stored grounding text
    ctx_parsed,     \* what evaluate() gets back from the stored text
    ctx_evaluator,  \* self.evaluator: NoEvaluator or an evaluator
    ev_table_reads, \* times evaluate read the results table
    ev_calls,       \* times evaluator.evaluate was called
    ctx_error       \* the exception that left evaluate, "none" otherwise

contextVars == <<ctx_chunks, ctx_query, ctx_pc, ctx_prompt, ctx_stored,
                 ctx_parsed, ctx_evaluator, ev_table_reads, ev_calls,
                 ctx_error>>

\* evaluator=None, the constructor's default
NoEvaluator == "<None>"

\* An evaluate without the configuration check.
EvaluatorMissingUnchecked(evaluator) == FALSE

\* evaluate line 332: self.evaluator is None
EvaluatorMissing(evaluator) == evaluator = NoEvaluator

ContextsIdle ==
    /\ ctx_chunks = <<>>
    /\ ctx_query = <<>>
    /\ ctx_pc = "idle"
    /\ ctx_prompt = <<>>
    /\ ctx_stored = <<>>
    /\ ctx_parsed = <<>>
    /\ ctx_evaluator = NoEvaluator
    /\ ev_table_reads = 0
    /\ ev_calls = 0
    /\ ctx_error = "none"

\* process_single line 195: generate is about to be called with the chunks
ContextsInit ==
    /\ ctx_chunks \in ChunkLists
    /\ ctx_query \in {<<"x">>}
    /\ ctx_pc = "generate"
    /\ ctx_prompt = <<>>
    /\ ctx_stored = <<>>
    /\ ctx_parsed = <<>>
    /\ ctx_evaluator \in {NoEvaluator, "RagasEvaluator"}
    /\ ev_table_reads = 0
    /\ ev_calls = 0
    /\ ctx_error = "none"

\* generate line 178: prompt = self._build_prompt(query, contexts, ...)
ContextsBuildPrompt ==
    /\ ctx_pc = "generate"
    /\ ctx_prompt' = BuildPrompt(ctx_query, ctx_chunks, <<>>)
    /\ ctx_pc' = "format"
    /\ UNCHANGED <<ctx_chunks, ctx_query, ctx_stored, ctx_parsed, ctx_evaluator,
                   ev_table_reads, ev_calls, ctx_error>>

\* process_single line 203: contexts = self._format_contexts_for_storage(...)
ContextsStore ==
    /\ ctx_pc = "format"
    /\ ctx_stored' = FormatContextsForStorage(ctx_chunks)
    /\ ctx_pc' = "stored"
    /\ UNCHANGED <<ctx_chunks, ctx_query, ctx_prompt, ctx_parsed, ctx_evaluator,
                   ev_table_reads, ev_calls, ctx_error>>

\* evaluate lines 331-333: no evaluator, EvaluationError
EvaluateRejected ==
    /\ ctx_pc = "stored"
    /\ EvaluatorMissing(ctx_evaluator)
    /\ ctx_error' = "EvaluationError"
    /\ ctx_pc' = "raised"
    /\ UNCHANGED <<ctx_chunks, ctx_query, ctx_prompt, ctx_stored, ctx_parsed,
                   ctx_evaluator, ev_table_reads, ev_calls>>

\* evaluate lines 335-343: the table is read and the stored text is parsed
\* back into contexts
ContextsParse ==
    /\ ctx_pc = "stored"
    /\ ~EvaluatorMissing(ctx_evaluator)
    /\ ev_table_reads' = ev_table_reads + 1
    /\ ctx_parsed' = ParseContextsForEvaluation(ctx_stored)
    /\ ctx_pc' = "parsed"
    /\ UNCHANGED <<ctx_chunks, ctx_query, ctx_prompt, ctx_stored, ctx_evaluator,
                   ev_calls, ctx_error>>

\* evaluate lines 346-351: evaluator.evaluate raises; nothing catches it
EvaluatorRaises ==
    /\ ctx_pc = "parsed"
    /\ ev_calls' = ev_calls + 1
    /\ ctx_error' = "evaluator failed"
    /\ ctx_pc' = "raised"
    /\ UNCHANGED <<ctx_chunks, ctx_query, ctx_prompt, ctx_stored, ctx_parsed,
                   ctx_evaluator, ev_table_reads>>

\* evaluate lines 346-358: the metrics are added to a copy of the table
EvaluatorReturns ==
    /\ ctx_pc = "parsed"
    /\ ev_calls' = ev_calls + 1
    /\ ctx_pc' = "evaluated"
    /\ UNCHANGED <<ctx_chunks, ctx_query, ctx_prompt, ctx_stored, ctx_parsed,
                   ctx_evaluator, ev_table_reads, ctx_error>>

ContextsNext ==
    \/ ContextsBuildPrompt
    \/ ContextsStore
    \/ EvaluateRejected
    \/ ContextsParse
    \/ EvaluatorRaises
    \/ EvaluatorReturns

\* ------------------------------------------------------------------------
\* The filter column in RAGPipeline.process_batch (rag_pipeline.py lines
\* 256-276): the loop seen through the filter values only. Each row's
\* process_single call ends in some way and the loop goes on.
\* ------------------------------------------------------------------------
MaxFilterRows == 2

\* row.get('filter', None) when the table has no filter column
MissingFilter == "<missing>"

\* an empty cell of the filter column
NaNFilter == "<NaN>"

\* cells of a filter column: empty cell, empty str, blank str, a category
FilterCells == {NaNFilter, "", " ", "manual"}

\* A loop that passes the empty str on.
RowFilteringValueBlankKept(cell) ==
    IF cell \notin {MissingFilter, NaNFilter} THEN cell ELSE NoFilter

\* lines 260-264: pd.notna(filtering) and filtering != ''
RowFilteringValue(cell) ==
    IF cell \notin {MissingFilter, NaNFilter} /\ cell # "" THEN cell
    ELSE NoFilter

VARIABLES
    bf_has_filter_col,   \* 'filter' in questions_df.columns
    bf_filters,          \* the filter column, one cell per row
    bf_idx,              \* loop position
    bf_pc,               \* "idle", "row", "call", "returned"
    filtering_value,     \* filtering_value of the current row
    bf_search_log,       \* the filtering argument of every searcher.search call
    bf_status            \* status of every processed row

filterVars == <<bf_has_filter_col, bf_filters, bf_idx, bf_pc, filtering_value,
                bf_search_log, bf_status>>

BatchFilterIdle ==
    /\ bf_has_filter_col = FALSE
    /\ bf_filters = <<>>
    /\ bf_idx = 0
    /\ bf_pc = "idle"
    /\ filtering_value = NoFilter
    /\ bf_search_log = <<>>
    /\ bf_status = <<>>

\* a table with or without a filter column; without it every row.get
\* yields the default
BatchFilterInit ==
    /\ bf_has_filter_col \in BOOLEAN
    /\ IF bf_has_filter_col
       THEN bf_filters \in UNION {[1..n -> FilterCells] : n \in 0..MaxFilterRows}
       ELSE bf_filters \in {[i \in 1..n |-> MissingFilter] : n \in 0..MaxFilterRows}
    /\ bf_idx = 1
    /\ bf_pc = "row"
    /\ filtering_value = NoFilter
    /\ bf_search_log = <<>>
    /\ bf_status = <<>>

\* lines 256-264: read the row, work out filtering_value
FilterRowBegin ==
    /\ bf_pc = "row"
    /\ bf_idx <= Len(bf_filters)
    /\ filtering_value' = RowFilteringValue(bf_filters[bf_idx])
    /\ bf_pc' = "call"
    /\ UNCHANGED <<bf_has_filter_col, bf_filters, bf_idx, bf_search_log,
                   bf_status>>

\* lines 270-300 with process_single lines 160-167: process_single passes
\* filtering=filtering_value to searcher.search; the row then succeeds or
\* fails and the loop moves on
FilterRowCall ==
    /\ bf_pc = "call"
    /\ bf_search_log' = Append(bf_search_log, filtering_value)
    /\ \E status \in {"success", "failed"} :
         bf_status' = Append(bf_status, status)
    /\ bf_idx' = bf_idx + 1
    /\ bf_pc' = "row"
    /\ UNCHANGED <<bf_has_filter_col, bf_filters, filtering_value>>

\* lines 302-311: the loop is over
FilterBatchReturns ==
    /\ bf_pc = "row"
    /\ bf_idx > Len(bf_filters)
    /\ bf_pc' = "returned"
    /\ UNCHANGED <<bf_has_filter_col, bf_filters, bf_idx, filtering_value,
                   bf_search_log, bf_status>>

BatchFilterNext ==
    \/ FilterRowBegin
    \/ FilterRowCall
    \/ FilterBatchReturns

\* ------------------------------------------------------------------------
\* DataPipeline.process_all and process_single (data_pipeline.py lines
\* 147-319) with DocumentWriter.save_document and save_chunks
\* (document_writer.py lines 72-235), one step per collaborator call.
\* A file is named by its position in file_paths; the document_id the store
\* generates for a file is that position.
\* ------------------------------------------------------------------------
MaxFiles == 2
MaxDocChunks == 2

VARIABLES
    dp_n,             \* len(file_paths)
    dp_callback,      \* a progress_callback was supplied
    dp_pc,            \* position in process_all / process_single
    dp_idx,           \* the file being processed
    dp_chunks,        \* len(chunked.chunks) of the current file
    dp_embedded,      \* len(embeddings) so far
    dp_doc_id,        \* saved_doc.document_id of the current file, 0 if none
    dp_pending,       \* the ProcessedDocument built inside the try block
    dp_error,         \* the exception being handled by an except clause
    processed_docs,   \* processed_docs
    tally,            \* successful, failed, skipped, total_chunks
    db,               \* rows of the store, committed and uncommitted
    dp_cb_log,        \* every progress_callback call: file and status
    dp_escaped,       \* the exception that left process_all, "none" otherwise
    dp_result,        \* the PipelineResult returned
    embeddings,       \* the embeddings list of process_single
    chunk_rows        \* rows inserted into chunks, committed or not

dataVars == <<dp_n, dp_callback, dp_pc, dp_idx, dp_chunks, dp_embedded,
              dp_doc_id, dp_pending, dp_error, processed_docs, tally, db,
              dp_cb_log, dp_escaped, dp_result, embeddings, chunk_rows>>

dataInputs == <<dp_n, dp_callback>>

\* document_id=None
NoDocumentId == 0

\* no ProcessedDocument
NoDocument ==
    [path |-> 0, status |-> "none", document_id |-> NoDocumentId,
     chunks_saved |-> 0, error |-> "none"]

NoPipelineResult ==
    [total_files |-> -1, successful |-> -1, failed |-> -1, skipped |-> -1,
     total_chunks |-> -1, processed_docs |-> <<>>]

\* process_all lines 283-287
ZeroTally == [successful |-> 0, failed |-> 0, skipped |-> 0, total_chunks |-> 0]

\* an empty store and an empty transaction, for n documents
EmptyStore(n) ==
    [docs |-> [i \in 1..n |-> 0], chunks |-> [i \in 1..n |-> 0],
     pending_docs |-> [i \in 1..n |-> 0], pending_chunks |-> [i \in 1..n |-> 0]]

\* cursor.execute of the INSERT INTO source_documents statement
InsertDocument(store, id) ==
    [store EXCEPT !.pending_docs[id] = @ + 1]

\* k times cursor.execute of the INSERT INTO chunks statement
InsertChunks(store, id, k) ==
    [store EXCEPT !.pending_chunks[id] = @ + k]

\* chunked.chunks of a text that gives n chunks, each named by its position
ChunkTexts(n) == [i \in 1..n |-> i]

\* embedding_gen.embed_query(chunk).vector_str: the vector of that chunk
EmbedQuery(chunk) == [vector_of |-> chunk]

\* A writer that pairs the chunks with the embeddings in reverse.
ZipRowsReversed(document_id, chunks, embs, k) ==
    {[document_id |-> document_id, chunk_text |-> chunks[i],
      embedding |-> embs[Len(embs) + 1 - i]] : i \in 1..k}

\* save_chunks lines 208-215: the first k rows of zip(chunks, embeddings)
ZipRows(document_id, chunks, embs, k) ==
    {[document_id |-> document_id, chunk_text |-> chunks[i],
      embedding |-> embs[i]] : i \in 1..k}

\* A writer that never commits.
CommitNothing(store) == store

\* A commit that reaches the source_documents rows only.
CommitDocumentsOnly(store) ==
    [docs |-> [i \in DOMAIN store.docs |-> store.docs[i] + store.pending_docs[i]],
     chunks |-> store.chunks,
     pending_docs |-> [i \in DOMAIN store.docs |-> 0],
     pending_chunks |-> store.pending_chunks]

\* self.connection.commit(): every row of the open transaction is committed
Commit(store) ==
    [docs |-> [i \in DOMAIN store.docs |-> store.docs[i] + store.pending_docs[i]],
     chunks |-> [i \in DOMAIN store.chunks |->
                   store.chunks[i] + store.pending_chunks[i]],
     pending_docs |-> [i \in DOMAIN store.docs |-> 0],
     pending_chunks |-> [i \in DOMAIN store.chunks |-> 0]]

\* the exceptions of the second except clause
KnownPipelineErrors ==
    {"DocumentLoaderError", "ChunkingError", "EmbeddingError",
     "DocumentWriteError"}

\* lines 226-269: the status an except clause gives the document
StatusForError(kind) ==
    IF kind = "TextExtractionError" THEN "skipped" ELSE "failed"

\* lines 226-269: the error text an except clause records
ErrorText(kind) ==
    IF kind \in KnownPipelineErrors \cup {"TextExtractionError"} THEN kind
    ELSE "Unexpected error"

\* A loop that forgets to count skipped documents.
TallySkippedDropped(t, result) ==
    IF result.status = "success"
    THEN [t EXCEPT !.successful = @ + 1,
                   !.total_chunks = @ + result.chunks_saved]
    ELSE IF result.status = "failed" THEN [t EXCEPT !.failed = @ + 1]
    ELSE t

\* process_all lines 295-301
Tally(t, result) ==
    IF result.status = "success"
    THEN [t EXCEPT !.successful = @ + 1,
                   !.total_chunks = @ + result.chunks_saved]
    ELSE IF result.status = "failed" THEN [t EXCEPT !.failed = @ + 1]
    ELSE IF result.status = "skipped" THEN [t EXCEPT !.skipped = @ + 1]
    ELSE t

DataIdle ==
    /\ dp_n = 0
    /\ dp_callback = FALSE
    /\ dp_pc = "idle"
    /\ dp_idx = 0
    /\ dp_chunks = 0
    /\ dp_embedded = 0
    /\ dp_doc_id = NoDocumentId
    /\ dp_pending = NoDocument
    /\ dp_error = "none"
    /\ processed_docs = <<>>
    /\ tally = ZeroTally
    /\ db = EmptyStore(0)
    /\ dp_cb_log = <<>>
    /\ dp_escaped = "none"
    /\ dp_result = NoPipelineResult
    /\ embeddings = <<>>
    /\ chunk_rows = {}

\* process_all lines 281-291: the counters are reset and the loop starts
DataInit ==
    /\ dp_n \in 0..MaxFiles
    /\ dp_callback \in BOOLEAN
    /\ dp_pc = "file"
    /\ dp_idx = 1
    /\ dp_chunks = 0
    /\ dp_embedded = 0
    /\ dp_doc_id = NoDocumentId
    /\ dp_pending = NoDocument
    /\ dp_error = "none"
    /\ processed_docs = <<>>
    /\ tally = ZeroTally
    /\ db = EmptyStore(dp_n)
    /\ dp_cb_log = <<>>
    /\ dp_escaped = "none"
    /\ dp_result = NoPipelineResult
    /\ embeddings = <<>>
    /\ chunk_rows = {}

\* an exception raised inside the try block goes to its except clause
RaiseInTry(kind) ==
    /\ dp_error' = kind
    /\ dp_pc' = "handler"

\* process_single returns result; process_all lines 293-301 append and
\* count it and go to the next file
FinishFile(result) ==
    /\ processed_docs' = Append(processed_docs, result)
    /\ tally' = Tally(tally, result)
    /\ dp_idx' = dp_idx + 1
    /\ dp_pc' = "file"
    /\ dp_chunks' = 0
    /\ dp_embedded' = 0
    /\ embeddings' = <<>>
    /\ dp_doc_id' = NoDocumentId
    /\ dp_pending' = NoDocument
    /\ dp_error' = "none"

\* line 160: loader.download_file raises
DownloadFails ==
    /\ dp_pc = "file"
    /\ dp_idx <= dp_n
    /\ \E kind \in {"DocumentLoaderError", "Exception"} : RaiseInTry(kind)
    /\ UNCHANGED <<dataInputs, dp_idx, dp_chunks, dp_embedded, dp_doc_id,
                   dp_pending, processed_docs, tally, db, dp_cb_log,
                   dp_escaped, dp_result,
                   embeddings, chunk_rows>>

\* line 160: the object is downloaded
DownloadReturns ==
    /\ dp_pc = "file"
    /\ dp_idx <= dp_n
    /\ dp_pc' = "extract"
    /\ UNCHANGED <<dataInputs, dp_idx, dp_chunks, dp_embedded, dp_doc_id,
                   dp_pending, dp_error, processed_docs, tally, db, dp_cb_log,
                   dp_escaped, dp_result,
                   embeddings, chunk_rows>>

\* lines 163-167: extractor.extract raises TextExtractionError
ExtractFails ==
    /\ dp_pc = "extract"
    /\ RaiseInTry("TextExtractionError")
    /\ UNCHANGED <<dataInputs, dp_idx, dp_chunks, dp_embedded, dp_doc_id,
                   dp_pending, processed_docs, tally, db, dp_cb_log,
                   dp_escaped, dp_result,
                   embeddings, chunk_rows>>

\* lines 163-167: the text is extracted
ExtractReturns ==
    /\ dp_pc = "extract"
    /\ dp_pc' = "chunk"
    /\ UNCHANGED <<dataInputs, dp_idx, dp_chunks, dp_embedded, dp_doc_id,
                   dp_pending, dp_error, processed_docs, tally, db, dp_cb_log,
                   dp_escaped, dp_result,
                   embeddings, chunk_rows>>

\* line 170: chunker.chunk raises ChunkingError
ChunkFails ==
    /\ dp_pc = "chunk"
    /\ RaiseInTry("ChunkingError")
    /\ UNCHANGED <<dataInputs, dp_idx, dp_chunks, dp_embedded, dp_doc_id,
                   dp_pending, processed_docs, tally, db, dp_cb_log,
                   dp_escaped, dp_result,
                   embeddings, chunk_rows>>

\* lines 170-184: the text is chunked; with no chunks the document is
\* skipped
ChunkReturns ==
    /\ dp_pc = "chunk"
    /\ \E k \in 0..MaxDocChunks :
         /\ dp_chunks' = k
         /\ IF k = 0
            THEN /\ dp_pending' = [path |-> dp_idx, status |-> "skipped",
                                   document_id |-> NoDocumentId,
                                   chunks_saved |-> 0, error |-> "No chunks"]
                 /\ dp_pc' = "notify"
            ELSE /\ dp_pc' = "embed"
                 /\ UNCHANGED dp_pending
    /\ UNCHANGED <<dataInputs, dp_idx, dp_embedded, dp_doc_id, dp_error,
                   processed_docs, tally, db, dp_cb_log, dp_escaped, dp_result,
                   embeddings, chunk_rows>>

\* lines 187-190: embedding_gen.embed_query raises for the next chunk
EmbedChunkFails ==
    /\ dp_pc = "embed"
    /\ RaiseInTry("EmbeddingError")
    /\ UNCHANGED <<dataInputs, dp_idx, dp_chunks, dp_embedded, dp_doc_id,
                   dp_pending, processed_docs, tally, db, dp_cb_log,
                   dp_escaped, dp_result,
                   embeddings, chunk_rows>>

\* lines 187-190: the next chunk is embedded
EmbedChunkReturns ==
    /\ dp_pc = "embed"
    /\ dp_embedded' = dp_embedded + 1
    /\ embeddings' = Append(embeddings,
                            EmbedQuery(ChunkTexts(dp_chunks)[Len(embeddings) + 1]))
    /\ dp_pc' = IF dp_embedded + 1 = dp_chunks THEN "save_document" ELSE "embed"
    /\ UNCHANGED <<dataInputs, dp_idx, dp_chunks, dp_doc_id, dp_pending,
                   dp_error, processed_docs, tally, db, dp_cb_log, dp_escaped,
                   dp_result,
                   chunk_rows>>

\* save_document lines 96-148: the INSERT fails (no row), or the INSERT
\* succeeds and commit fails (the row stays in the open transaction)
SaveDocumentFails ==
    /\ dp_pc = "save_document"
    /\ \E inserted \in BOOLEAN :
         db' = IF inserted THEN InsertDocument(db, dp_idx) ELSE db
    /\ RaiseInTry("DocumentWriteError")
    /\ UNCHANGED <<dataInputs, dp_idx, dp_chunks, dp_embedded, dp_doc_id,
                   dp_pending, processed_docs, tally, dp_cb_log, dp_escaped,
                   dp_result,
                   embeddings, chunk_rows>>

\* save_document lines 96-142: the row is inserted and committed
SaveDocumentReturns ==
    /\ dp_pc = "save_document"
    /\ db' = Commit(InsertDocument(db, dp_idx))
    /\ dp_doc_id' = dp_idx
    /\ dp_pc' = "save_chunks"
    /\ UNCHANGED <<dataInputs, dp_idx, dp_chunks, dp_embedded, dp_pending,
                   dp_error, processed_docs, tally, dp_cb_log, dp_escaped,
                   dp_result,
                   embeddings, chunk_rows>>

\* save_chunks lines 177-235: an INSERT fails after k rows, or all rows are
\* inserted and commit fails; nothing is rolled back
SaveChunksFails ==
    /\ dp_pc = "save_chunks"
    /\ \E k \in 0..dp_chunks :
         /\ db' = InsertChunks(db, dp_doc_id, k)
         /\ chunk_rows' = chunk_rows \cup
                ZipRows(dp_doc_id, ChunkTexts(dp_chunks), embeddings, k)
    /\ RaiseInTry("DocumentWriteError")
    /\ UNCHANGED <<dataInputs, dp_idx, dp_chunks, dp_embedded, dp_doc_id,
                   dp_pending, processed_docs, tally, dp_cb_log, dp_escaped,
                   dp_result,
                   embeddings>>

\* save_chunks lines 177-224 and process_single lines 209-219: all rows are
\* inserted and committed, the document is a success
SaveChunksReturns ==
    /\ dp_pc = "save_chunks"
    /\ db' = Commit(InsertChunks(db, dp_doc_id, dp_chunks))
    /\ chunk_rows' = chunk_rows \cup
           ZipRows(dp_doc_id, ChunkTexts(dp_chunks), embeddings, dp_chunks)
    /\ dp_pending' = [path |-> dp_idx, status |-> "success",
                      document_id |-> dp_doc_id, chunks_saved |-> dp_chunks,
                      error |-> "none"]
    /\ dp_pc' = "notify"
    /\ UNCHANGED <<dataInputs, dp_idx, dp_chunks, dp_embedded, dp_doc_id,
                   dp_error, processed_docs, tally, dp_cb_log, dp_escaped,
                   dp_result,
                   embeddings>>

\* lines 182-184 and 221-224: the callback, if any, is told the status and
\* process_single returns the document
NotifyReturns ==
    /\ dp_pc = "notify"
    /\ dp_cb_log' = IF dp_callback
                    THEN Append(dp_cb_log, [file |-> dp_idx,
                                            status |-> dp_pending.status])
                    ELSE dp_cb_log
    /\ FinishFile(dp_pending)
    /\ UNCHANGED <<dataInputs, db, dp_escaped, dp_result,
                   chunk_rows>>

\* lines 182-183 and 221-222: the callback raises inside the try block and
\* the last except clause takes over
NotifyRaises ==
    /\ dp_pc = "notify"
    /\ dp_callback
    /\ dp_cb_log' = Append(dp_cb_log, [file |-> dp_idx,
                                       status |-> dp_pending.status])
    /\ RaiseInTry("CallbackError")
    /\ UNCHANGED <<dataInputs, dp_idx, dp_chunks, dp_embedded, dp_doc_id,
                   dp_pending, processed_docs, tally, db, dp_escaped, dp_result,
                   embeddings, chunk_rows>>

\* lines 226-269: an except clause builds the document, tells the callback,
\* if any, and returns
HandlerReturns ==
    /\ dp_pc = "handler"
    /\ dp_cb_log' = IF dp_callback
                    THEN Append(dp_cb_log, [file |-> dp_idx,
                                            status |-> StatusForError(dp_error)])
                    ELSE dp_cb_log
    /\ FinishFile([path |-> dp_idx, status |-> StatusForError(dp_error),
                   document_id |-> NoDocumentId, chunks_saved |-> 0,
                   error |-> ErrorText(dp_error)])
    /\ UNCHANGED <<dataInputs, db, dp_escaped, dp_result,
                   chunk_rows>>

\* lines 238-239, 253-254 and 267-268: the callback raises inside an except
\* clause; the exception leaves process_single and process_all
HandlerCallbackRaises ==
    /\ dp_pc = "handler"
    /\ dp_callback
    /\ dp_cb_log' = Append(dp_cb_log, [file |-> dp_idx,
                                       status |-> StatusForError(dp_error)])
    /\ dp_escaped' = "CallbackError"
    /\ dp_pc' = "raised"
    /\ UNCHANGED <<dataInputs, dp_idx, dp_chunks, dp_embedded, dp_doc_id,
                   dp_pending, dp_error, processed_docs, tally, db, dp_result,
                   embeddings, chunk_rows>>

\* process_all lines 303-319: the loop is over
DataReturns ==
    /\ dp_pc = "file"
    /\ dp_idx > dp_n
    /\ dp_result' = [total_files |-> dp_n, successful |-> tally.successful,
                     failed |-> tally.failed, skipped |-> tally.skipped,
                     total_chunks |-> tally.total_chunks,
                     processed_docs |-> processed_docs]
    /\ dp_pc' = "returned"
    /\ UNCHANGED <<dataInputs, dp_idx, dp_chunks, dp_embedded, dp_doc_id,
                   dp_pending, dp_error, processed_docs, tally, db, dp_cb_log,
                   dp_escaped,
                   embeddings, chunk_rows>>

DataNext ==
    \/ DownloadFails
    \/ DownloadReturns
    \/ ExtractFails
    \/ ExtractReturns
    \/ ChunkFails
    \/ ChunkReturns
    \/ EmbedChunkFails
    \/ EmbedChunkReturns
    \/ SaveDocumentFails
    \/ SaveDocumentReturns
    \/ SaveChunksFails
    \/ SaveChunksReturns
    \/ NotifyReturns
    \/ NotifyRaises
    \/ HandlerReturns
    \/ HandlerCallbackRaises
    \/ DataReturns

\* ------------------------------------------------------------------------
\* TextExtractor.extract, _extract_pdf and _extract_text (text_extractor.py
\* lines 60-198), called directly or from DataPipeline.process_single with
\* the metadata of DocumentLoader.download_file (document_loader.py lines
\* 131-155, data_pipeline.py lines 160-224).
\* ------------------------------------------------------------------------
VARIABLES
    ex_caller,        \* "direct": extract is called; "pipeline": process_single
    ex_content_type,  \* the content_type argument of extract
    ex_decodes,       \* the encoding the bytes decode with, "none" if neither
    ex_pc,            \* position in extract and in the caller
    ex_route,         \* the private method extract called
    ex_route_type,    \* the content_type extract handed to _extract_text
    temp_file_path,   \* the local temp_file_path of _extract_pdf
    temp_files,       \* temporary files of this call that exist on disk
    ex_pending,       \* the exception _extract_pdf is raising, "none" if none
    ex_result,        \* the ExtractedText returned
    ex_error,         \* the exception that left extract or the try block
    ex_status         \* the status of the ProcessedDocument, "none" if direct

extractVars == <<ex_caller, ex_content_type, ex_decodes, ex_pc, ex_route,
                 ex_route_type, temp_file_path, temp_files, ex_pending,
                 ex_result, ex_error, ex_status>>

extractInputs == <<ex_caller, ex_content_type, ex_decodes>>

\* the short type names extract compares with
ShortTypes == {"pdf", "txt", "csv"}

\* the MIME types of DataPipeline._extract_content_type's mime_map
MimeTypes == {"application/pdf", "text/plain", "text/csv", "application/csv"}

\* what Content-Type headers and callers supply
ContentTypes ==
    ShortTypes \cup MimeTypes \cup {"application/xyz", "application/octet-stream"}

\* the fields of the ExtractedText dataclass
ExtractedTextFields ==
    {"content", "filename", "content_type", "encoding", "char_count"}

\* the attributes of extracted that process_single reads
AttributesRead == {"text", "text_length"}

NoExtractedText == [content_type |-> "none", encoding |-> "none"]

\* temp_file_path = None
NoPath == "<None>"

\* extract lines 81-88: the private method chosen for a content_type
ExtractRoute(content_type) ==
    IF content_type = "pdf" THEN "pdf"
    ELSE IF content_type \in {"txt", "csv"} THEN "text"
    ELSE "unsupported"

ExtractIdle ==
    /\ ex_caller = "none"
    /\ ex_content_type = "none"
    /\ ex_decodes = "none"
    /\ ex_pc = "idle"
    /\ ex_route = "none"
    /\ ex_route_type = "none"
    /\ temp_file_path = NoPath
    /\ temp_files = 0
    /\ ex_pending = "none"
    /\ ex_result = NoExtractedText
    /\ ex_error = "none"
    /\ ex_status = "none"

\* extract is entered; in the pipeline the object has been downloaded and
\* content_type is the Content-Type header of the response
ExtractInit ==
    /\ ex_caller \in {"direct", "pipeline"}
    /\ ex_content_type \in ContentTypes
    /\ ex_decodes \in {"utf-8", "shift_jis", "none"}
    /\ ex_pc = "extract"
    /\ ex_route = "none"
    /\ ex_route_type = "none"
    /\ temp_file_path = NoPath
    /\ temp_files = 0
    /\ ex_pending = "none"
    /\ ex_result = NoExtractedText
    /\ ex_error = "none"
    /\ ex_status = "none"

\* extract lines 80-88: the type is dispatched on
ExtractDispatch ==
    /\ ex_pc = "extract"
    /\ ex_route' = ExtractRoute(ex_content_type)
    /\ IF ExtractRoute(ex_content_type) = "pdf"
       THEN ex_pc' = "pdf_create" /\ UNCHANGED <<ex_route_type, ex_error>>
       ELSE IF ExtractRoute(ex_content_type) = "text"
       THEN /\ ex_pc' = "text_decode"
            /\ ex_route_type' = ex_content_type
            /\ UNCHANGED ex_error
       ELSE /\ ex_pc' = "raised"
            /\ ex_error' = "Unsupported file type"
            /\ UNCHANGED ex_route_type
    /\ UNCHANGED <<extractInputs, temp_file_path, temp_files, ex_pending,
                   ex_result, ex_status>>

\* _extract_pdf lines 116-119: NamedTemporaryFile raises, no file is made
PdfCreateFails ==
    /\ ex_pc = "pdf_create"
    /\ ex_pending' = "Failed to extract PDF"
    /\ ex_pc' = "pdf_finally"
    /\ UNCHANGED <<extractInputs, ex_route, ex_route_type, temp_file_path,
                   temp_files, ex_result, ex_error, ex_status>>

\* _extract_pdf lines 116-119: the file is created with delete=False
PdfCreateReturns ==
    /\ ex_pc = "pdf_create"
    /\ temp_files' = temp_files + 1
    /\ ex_pc' = "pdf_write"
    /\ UNCHANGED <<extractInputs, ex_route, ex_route_type, temp_file_path,
                   ex_pending, ex_result, ex_error, ex_status>>

\* lines 120-121: write or flush raises; the with block closes the file,
\* which stays on disk, and temp_file_path has not been assigned
PdfWriteFails ==
    /\ ex_pc = "pdf_write"
    /\ ex_pending' = "Failed to extract PDF"
    /\ ex_pc' = "pdf_finally"
    /\ UNCHANGED <<extractInputs, ex_route, ex_route_type, temp_file_path,
                   temp_files, ex_result, ex_error, ex_status>>

\* lines 120-122: the bytes are written and temp_file_path is assigned
PdfWriteReturns ==
    /\ ex_pc = "pdf_write"
    /\ temp_file_path' = "temp_file.name"
    /\ ex_pc' = "pdf_load"
    /\ UNCHANGED <<extractInputs, ex_route, ex_route_type, temp_files,
                   ex_pending, ex_result, ex_error, ex_status>>

\* lines 125-126: PyMuPDFLoader or load raises
PdfLoadFails ==
    /\ ex_pc = "pdf_load"
    /\ ex_pending' = "Failed to extract PDF"
    /\ ex_pc' = "pdf_finally"
    /\ UNCHANGED <<extractInputs, ex_route, ex_route_type, temp_file_path,
                   temp_files, ex_result, ex_error, ex_status>>

\* lines 125-138: the pages are loaded and joined
PdfLoadReturns ==
    /\ ex_pc = "pdf_load"
    /\ ex_result' = [content_type |-> "pdf", encoding |-> "none"]
    /\ ex_pc' = "pdf_finally"
    /\ UNCHANGED <<extractInputs, ex_route, ex_route_type, temp_file_path,
                   temp_files, ex_pending, ex_error, ex_status>>

\* _extract_pdf and extract end: the value is returned, or the
\* TextExtractionError raised at lines 140-143 passes lines 89-90
PdfLeave ==
    IF ex_pending = "none"
    THEN ex_pc' = "returned" /\ UNCHANGED ex_error
    ELSE ex_pc' = "raised" /\ ex_error' = ex_pending

\* lines 145-149: the finally block removes the file it knows
PdfFinallyUnlinks ==
    /\ ex_pc = "pdf_finally"
    /\ temp_file_path # NoPath
    /\ temp_files > 0
    /\ temp_files' = temp_files - 1
    /\ PdfLeave
    /\ UNCHANGED <<extractInputs, ex_route, ex_route_type, temp_file_path,
                   ex_pending, ex_result, ex_status>>

\* lines 148-153: os.unlink raises and only a warning is logged
PdfFinallyUnlinkFails ==
    /\ ex_pc = "pdf_finally"
    /\ temp_file_path # NoPath
    /\ temp_files > 0
    /\ PdfLeave
    /\ UNCHANGED <<extractInputs, ex_route, ex_route_type, temp_file_path,
                   temp_files, ex_pending, ex_result, ex_status>>

\* line 147: temp_file_path is None, nothing is removed
PdfFinallySkips ==
    /\ ex_pc = "pdf_finally"
    /\ temp_file_path = NoPath
    /\ PdfLeave
    /\ UNCHANGED <<extractInputs, ex_route, ex_route_type, temp_file_path,
                   temp_files, ex_pending, ex_result, ex_status>>

\* _extract_text lines 177-198: UTF-8, then Shift-JIS, then the error
TextDecode ==
    /\ ex_pc = "text_decode"
    /\ IF ex_decodes = "none"
       THEN /\ ex_pc' = "raised"
            /\ ex_error' = "Failed to decode"
            /\ UNCHANGED ex_result
       ELSE /\ ex_pc' = "returned"
            /\ ex_result' = [content_type |-> ex_route_type,
                             encoding |-> ex_decodes]
            /\ UNCHANGED ex_error
    /\ UNCHANGED <<extractInputs, ex_route, ex_route_type, temp_file_path,
                   temp_files, ex_pending, ex_status>>

\* process_single lines 226-239: the TextExtractionError of extract makes
\* the document 'skipped'
PipelineSkipsFile ==
    /\ ex_caller = "pipeline"
    /\ ex_pc = "raised"
    /\ ex_status' = "skipped"
    /\ ex_pc' = "done"
    /\ UNCHANGED <<extractInputs, ex_route, ex_route_type, temp_file_path,
                   temp_files, ex_pending, ex_result, ex_error>>

\* process_single lines 170-224 and 256-269 with every later stage
\* succeeding: extracted.text and extracted.text_length are read; an
\* attribute that ExtractedText lacks raises AttributeError, which the last
\* except clause turns into 'failed'
PipelineHandsOver ==
    /\ ex_caller = "pipeline"
    /\ ex_pc = "returned"
    /\ IF AttributesRead \subseteq ExtractedTextFields
       THEN ex_status' = "success" /\ UNCHANGED ex_error
       ELSE ex_status' = "failed" /\ ex_error' = "AttributeError"
    /\ ex_pc' = "done"
    /\ UNCHANGED <<extractInputs, ex_route, ex_route_type, temp_file_path,
                   temp_files, ex_pending, ex_result>>

ExtractNext ==
    \/ ExtractDispatch
    \/ PdfCreateFails
    \/ PdfCreateReturns
    \/ PdfWriteFails
    \/ PdfWriteReturns
    \/ PdfLoadFails
    \/ PdfLoadReturns
    \/ PdfFinallyUnlinks
    \/ PdfFinallyUnlinkFails
    \/ PdfFinallySkips
    \/ TextDecode
    \/ PipelineSkipsFile
    \/ PipelineHandsOver

\* ------------------------------------------------------------------------
\* The tables of RAGPipeline.process_batch (rag_pipeline.py lines 241-311):
\* questions_df, its copy results_df, and the writes results_df.at[idx, ...]
\* by index label. progress_callback is None here; what each row's
\* process_single call does is given per row.
\* ------------------------------------------------------------------------
MaxTableRows == 2

VARIABLES
    heap,           \* the DataFrame objects: "caller" is questions_df
    bt_input,       \* the content of questions_df when process_batch is called
    bt_outcomes,    \* per row position, whether its process_single call raises
    bt_results_df,  \* the object the name results_df refers to
    bt_pos,         \* position of the loop in questions_df.iterrows()
    bt_pc,          \* position in process_batch
    bt_successful,  \* successful
    bt_failed,      \* failed
    bt_result       \* the BatchResult returned

tableVars == <<heap, bt_input, bt_outcomes, bt_results_df, bt_pos, bt_pc,
               bt_successful, bt_failed, bt_result>>

tableInputs == <<bt_input, bt_outcomes>>

\* index labels a caller's table may carry: not unique, not 0..n-1
IndexLabels == {0, 1, 7}

\* column lists a caller's table may have
InputColumns ==
    {<<"question">>, <<"question", "filter">>, <<"status", "question">>}

\* lines 243-250: the result columns with their initial values
ResultColumns ==
    << <<"answer", "None">>, <<"contexts", "None">>,
       <<"vector_search_time", "0.0">>, <<"rerank_time", "0.0">>,
       <<"generation_time", "0.0">>, <<"total_time", "0.0">>,
       <<"model_used", "None">>, <<"status", "pending">> >>

\* lines 280-287: what a successful row writes, for the row at position p
SuccessWrites(p) ==
    << <<"answer", <<"answer", p>> >>, <<"contexts", <<"contexts", p>> >>,
       <<"vector_search_time", <<"time", p>> >>, <<"rerank_time", <<"time", p>> >>,
       <<"generation_time", <<"time", p>> >>, <<"total_time", <<"time", p>> >>,
       <<"model_used", <<"model", p>> >>, <<"status", "success">> >>

\* lines 293-296: what a failed row writes
FailureWrites(p) ==
    << <<"answer", "">>, <<"contexts", "">>, <<"status", "failed">>,
       <<"error", <<"error", p>> >> >>

NoTable == [index |-> <<>>, columns |-> <<>>, cells |-> <<>>]

\* a table with the given labels and columns; the cell of row p and column c
\* holds a value of its own
InputTable(index, columns) ==
    [index |-> index, columns |-> columns,
     cells |-> [p \in 1..Len(index) |->
                  [c \in {columns[k] : k \in 1..Len(columns)} |-> <<"input", p, c>>]]]

ColumnNames(t) == {t.columns[k] : k \in 1..Len(t.columns)}

\* df[name] = value: an existing column is overwritten in place, a new one
\* is appended
SetColumn(t, name, value) ==
    [index |-> t.index,
     columns |-> IF name \in ColumnNames(t) THEN t.columns
                 ELSE Append(t.columns, name),
     cells |-> [p \in 1..Len(t.index) |->
                  [c \in ColumnNames(t) \cup {name} |->
                     IF c = name THEN value ELSE t.cells[p][c]]]]

\* df.at[label, name] = value: every row that carries the label is written;
\* a new column is appended with NaN in the other rows
SetAt(t, label, name, value) ==
    [index |-> t.index,
     columns |-> IF name \in ColumnNames(t) THEN t.columns
                 ELSE Append(t.columns, name),
     cells |-> [q \in 1..Len(t.index) |->
                  [c \in ColumnNames(t) \cup {name} |->
                     IF c = name
                     THEN (IF t.index[q] = label THEN value
                           ELSE IF name \in ColumnNames(t) THEN t.cells[q][c]
                           ELSE "NaN")
                     ELSE t.cells[q][c]]]]

\* the assignments of lines 243-250, in order
RECURSIVE SetColumns(_, _)
SetColumns(t, writes) ==
    IF writes = <<>> THEN t
    ELSE SetColumns(SetColumn(t, Head(writes)[1], Head(writes)[2]), Tail(writes))

\* the .at writes of one row, in order
RECURSIVE SetAtAll(_, _, _)
SetAtAll(t, label, writes) ==
    IF writes = <<>> THEN t
    ELSE SetAtAll(SetAt(t, label, Head(writes)[1], Head(writes)[2]),
                  label, Tail(writes))

\* results_df = questions_df with no copy: the same object.
DataFrameAlias(ref) == ref

\* questions_df.copy(): a new object
DataFrameCopy(ref) == "copy"

BatchTableIdle ==
    /\ heap = [o \in {"caller", "copy"} |-> NoTable]
    /\ bt_input = NoTable
    /\ bt_outcomes = <<>>
    /\ bt_results_df = "caller"
    /\ bt_pos = 0
    /\ bt_pc = "idle"
    /\ bt_successful = 0
    /\ bt_failed = 0
    /\ bt_result = NoBatchResult

\* process_batch is called with a table that has the question column
BatchTableInit ==
    /\ \E n \in 0..MaxTableRows :
         /\ \E index \in [1..n -> IndexLabels], columns \in InputColumns :
              bt_input = InputTable(index, columns)
         /\ bt_outcomes \in [1..n -> {"returns", "raises"}]
    /\ heap = [o \in {"caller", "copy"} |->
                 IF o = "caller" THEN bt_input ELSE NoTable]
    /\ bt_results_df = "caller"
    /\ bt_pos = 0
    /\ bt_pc = "start"
    /\ bt_successful = 0
    /\ bt_failed = 0
    /\ bt_result = NoBatchResult

\* lines 241-253: the copy is made and the result columns are added
TablePrepare ==
    /\ bt_pc = "start"
    /\ bt_results_df' = DataFrameCopy("caller")
    /\ heap' = [heap EXCEPT ![DataFrameCopy("caller")] =
                   SetColumns(heap["caller"], ResultColumns)]
    /\ bt_pos' = 1
    /\ bt_pc' = "loop"
    /\ UNCHANGED <<tableInputs, bt_successful, bt_failed, bt_result>>

\* lines 256-289: the row's process_single call returns and its result is
\* written under the row's index label
TableRowSucceeds ==
    /\ bt_pc = "loop"
    /\ bt_pos <= Len(heap["caller"].index)
    /\ bt_outcomes[bt_pos] = "returns"
    /\ heap' = [heap EXCEPT ![bt_results_df] =
                   SetAtAll(@, heap["caller"].index[bt_pos],
                            SuccessWrites(bt_pos))]
    /\ bt_successful' = bt_successful + 1
    /\ bt_pos' = bt_pos + 1
    /\ UNCHANGED <<tableInputs, bt_results_df, bt_pc, bt_failed, bt_result>>

\* lines 256-298: the row's process_single call raises and the failure is
\* written under the row's index label
TableRowFails ==
    /\ bt_pc = "loop"
    /\ bt_pos <= Len(heap["caller"].index)
    /\ bt_outcomes[bt_pos] = "raises"
    /\ heap' = [heap EXCEPT ![bt_results_df] =
                   SetAtAll(@, heap["caller"].index[bt_pos],
                            FailureWrites(bt_pos))]
    /\ bt_failed' = bt_failed + 1
    /\ bt_pos' = bt_pos + 1
    /\ UNCHANGED <<tableInputs, bt_results_df, bt_pc, bt_successful, bt_result>>

\* lines 302-311: the BatchResult is returned
TableBatchReturns ==
    /\ bt_pc = "loop"
    /\ bt_pos > Len(heap["caller"].index)
    /\ bt_result' = [total_questions |-> Len(heap["caller"].index),
                     successful |-> bt_successful, failed |-> bt_failed]
    /\ bt_pc' = "returned"
    /\ UNCHANGED <<tableInputs, heap, bt_results_df, bt_pos, bt_successful,
                   bt_failed>>

BatchTableNext ==
    \/ TablePrepare
    \/ TableRowSucceeds
    \/ TableRowFails
    \/ TableBatchReturns

\* ------------------------------------------------------------------------
\* Specifications
\* ------------------------------------------------------------------------
vars == <<batchVars, singleVars, genVars, rerankVars, searchVars, contextVars, filterVars, dataVars, extractVars, tableVars>>

Init == BatchInit /\ SingleIdle /\ GenerateIdle /\ RerankIdle /\ SearchIdle
        /\ ContextsIdle /\ BatchFilterIdle /\ DataIdle /\ ExtractIdle
        /\ BatchTableIdle

Next ==
    BatchNext
        /\ UNCHANGED <<singleVars, genVars, rerankVars, searchVars, contextVars, filterVars, dataVars, extractVars, tableVars>>

Spec == Init /\ [][Next]_vars

InitSingle == SingleInit /\ BatchIdle /\ GenerateIdle /\ RerankIdle
        /\ SearchIdle /\ ContextsIdle /\ BatchFilterIdle /\ DataIdle
        /\ ExtractIdle /\ BatchTableIdle

NextSingle ==
    SingleNext
        /\ UNCHANGED <<batchVars, genVars, rerankVars, searchVars, contextVars, filterVars, dataVars, extractVars, tableVars>>

SpecSingle == InitSingle /\ [][NextSingle]_vars

InitGenerate == GenerateInit /\ BatchIdle /\ SingleIdle /\ RerankIdle
        /\ SearchIdle /\ ContextsIdle /\ BatchFilterIdle /\ DataIdle
        /\ ExtractIdle /\ BatchTableIdle

NextGenerate ==
    GenerateNext
        /\ UNCHANGED <<batchVars, singleVars, rerankVars, searchVars, contextVars, filterVars, dataVars, extractVars, tableVars>>

SpecGenerate == InitGenerate /\ [][NextGenerate]_vars

InitRerank == RerankInit /\ BatchIdle /\ SingleIdle /\ GenerateIdle
        /\ SearchIdle /\ ContextsIdle /\ BatchFilterIdle /\ DataIdle
        /\ ExtractIdle /\ BatchTableIdle

NextRerank ==
    RerankNext
        /\ UNCHANGED <<batchVars, singleVars, genVars, searchVars, contextVars, filterVars, dataVars, extractVars, tableVars>>

SpecRerank == InitRerank /\ [][NextRerank]_vars

InitSearch == SearchInit /\ BatchIdle /\ SingleIdle /\ GenerateIdle
        /\ RerankIdle /\ ContextsIdle /\ BatchFilterIdle /\ DataIdle
        /\ ExtractIdle /\ BatchTableIdle

NextSearch ==
    SearchNext
        /\ UNCHANGED <<batchVars, singleVars, genVars, rerankVars, contextVars, filterVars, dataVars, extractVars, tableVars>>

SpecSearch == InitSearch /\ [][NextSearch]_vars

InitContexts == ContextsInit /\ BatchIdle /\ SingleIdle /\ GenerateIdle
        /\ RerankIdle /\ SearchIdle /\ BatchFilterIdle /\ DataIdle
        /\ ExtractIdle /\ BatchTableIdle

NextContexts ==
    ContextsNext
        /\ UNCHANGED <<batchVars, singleVars, genVars, rerankVars, searchVars, filterVars, dataVars, extractVars, tableVars>>

SpecContexts == InitContexts /\ [][NextContexts]_vars

InitBatchFilter == BatchFilterInit /\ BatchIdle /\ SingleIdle
        /\ GenerateIdle /\ RerankIdle /\ SearchIdle /\ ContextsIdle
        /\ DataIdle /\ ExtractIdle /\ BatchTableIdle

NextBatchFilter ==
    BatchFilterNext
        /\ UNCHANGED <<batchVars, singleVars, genVars, rerankVars, searchVars, contextVars, dataVars, extractVars, tableVars>>

SpecBatchFilter == InitBatchFilter /\ [][NextBatchFilter]_vars

InitData == DataInit /\ BatchIdle /\ SingleIdle /\ GenerateIdle
        /\ RerankIdle /\ SearchIdle /\ ContextsIdle /\ BatchFilterIdle
        /\ ExtractIdle /\ BatchTableIdle

NextData ==
    DataNext
        /\ UNCHANGED <<batchVars, singleVars, genVars, rerankVars, searchVars, contextVars, filterVars, extractVars, tableVars>>

SpecData == InitData /\ [][NextData]_vars

InitExtract == ExtractInit /\ BatchIdle /\ SingleIdle /\ GenerateIdle
        /\ RerankIdle /\ SearchIdle /\ ContextsIdle /\ BatchFilterIdle
        /\ DataIdle /\ BatchTableIdle

NextExtract ==
    ExtractNext
        /\ UNCHANGED <<batchVars, singleVars, genVars, rerankVars, searchVars, contextVars, filterVars, dataVars, tableVars>>

SpecExtract == InitExtract /\ [][NextExtract]_vars

InitBatchTable == BatchTableInit /\ BatchIdle /\ SingleIdle /\ GenerateIdle
        /\ RerankIdle /\ SearchIdle /\ ContextsIdle /\ BatchFilterIdle
        /\ DataIdle /\ ExtractIdle

NextBatchTable ==
    BatchTableNext
        /\ UNCHANGED <<batchVars, singleVars, genVars, rerankVars, searchVars, contextVars, filterVars, dataVars, extractVars>>

SpecBatchTable == InitBatchTable /\ [][NextBatchTable]_vars

\* ------------------------------------------------------------------------
\* Properties
\* ------------------------------------------------------------------------
Rows == 1..Len(results_df)

BatchOver == pc \in {"returned", "raised"}

HasErrorMessage(row) == row.error # NoValue /\ row.error # ""

\* C1: in process_batch, exactly the rows whose vector search or answer
\* generation raised end with status 'failed', an empty answer and a
\* non-empty error message, every other row ends with status 'success', and
\* the rows after a failing row are still processed.
C1_BatchIsolation ==
    (BatchOver /\ \E i \in Rows : raisedBy[i] \in {"search", "generate"}) =>
        \A i \in Rows :
            IF raisedBy[i] \in {"search", "generate"}
            THEN /\ results_df[i].status = "failed"
                 /\ results_df[i].answer = ""
                 /\ HasErrorMessage(results_df[i])
            ELSE results_df[i].status = "success"

\* C2: the BatchResult that process_batch returns has
\* successful + failed == total_questions == number of rows of the table.
C2_CountsAddUp ==
    pc = "returned" =>
        /\ batchResult.successful + batchResult.failed = batchResult.total_questions
        /\ batchResult.total_questions = Len(table)

C2_Witness ==
    /\ pc = "returned"
    /\ batchResult.successful >= 1
    /\ batchResult.failed >= 1

\* C3: for a table that has the question column no exception leaves
\* process_batch.
C3_NoExceptionEscapes ==
    hasQuestionCol => (pc # "raised" /\ escaped = "none")

\* C4: when the relevance model raises while loading or scoring, rerank
\* does not raise and returns min(top_n, number of candidates) candidates,
\* those with the smallest distances, in ascending distance, without scores.
C4_FallbackOrder ==
    (rr_pc = "done" /\ RerankReachesModel /\ rr_model.kind # "scores") =>
        LET out == rr_result.chunks
            chosen == {out[i].chunk_id : i \in 1..Len(out)}
        IN  /\ ~rr_result.raised
            /\ Len(out) = (IF rr_top_n < Len(rr_chunks) THEN rr_top_n
                           ELSE Len(rr_chunks))
            /\ Cardinality(chosen) = Len(out)
            /\ \A i \in 1..Len(out) :
                  /\ out[i].rerank_score = NoScore
                  /\ out[i].chunk_id \in 1..Len(rr_chunks)
                  /\ out[i].distance = rr_chunks[out[i].chunk_id].distance
            /\ \A i, j \in 1..Len(out) :
                  i < j => out[i].distance <= out[j].distance
            /\ \A c \in 1..Len(rr_chunks) :
                  c \notin chosen =>
                     \A i \in 1..Len(out) : out[i].distance <= rr_chunks[c].distance

C4_Witness ==
    /\ rr_pc = "done"
    /\ RerankReachesModel
    /\ rr_model.kind = "predict_error"
    /\ Len(rr_chunks) = 3
    /\ rr_chunks[1].distance > rr_chunks[2].distance
    /\ rr_top_n = 2
    /\ Len(rr_result.chunks) = 2

\* C5 as stated: with reranking enabled a row fails only because
\* VectorSearcher.search or AnswerGenerator.generate raised.
C5_OnlySearchOrGenerateFail ==
    \A i \in Rows :
        results_df[i].status = "failed" => raisedBy[i] \in {"search", "generate"}

\* C5 amended: no error of the relevance model reaches the pipeline; a row
\* fails only because search or generate raised, or because rerank rejected
\* its arguments (a question that is empty once stripped, or
\* rerank_top_n <= 0).
C5_OnlyArgumentErrorsFromRerank ==
    \A i \in Rows :
        results_df[i].status = "failed" =>
            \/ raisedBy[i] \in {"search", "generate"}
            \/ /\ raisedBy[i] = "rerank"
               /\ enable_reranking
               /\ results_df[i].error \in {"Query cannot be empty", "top_n must be > 0"}
               /\ Strip(table[i].text) = <<>> \/ rerank_top_n <= 0

C5_Witness ==
    /\ enable_reranking
    /\ Len(results_df) = 2
    /\ results_df[1].status = "failed"
    /\ raisedBy[1] = "rerank"
    /\ pc = "generate"
    /\ idx = 2
    /\ ranked_chunks # <<>>
    /\ ranked_chunks[1].rerank_score = NoScore

\* number of leading rate-limit rejections in the backend log
RECURSIVE LeadingRateLimits(_)
LeadingRateLimits(log) ==
    IF log = <<>> THEN 0
    ELSE IF ~Head(log).ok /\ Head(log).hasStatus /\ Head(log).status = 429
    THEN 1 + LeadingRateLimits(Tail(log))
    ELSE 0

AllRateLimited(log) == LeadingRateLimits(log) = Len(log)

\* C6: k < max_retries rate-limit rejections followed by a success: generate
\* returns the answer after k+1 backend calls and k sleeps, the i-th sleep
\* lasting retry_delay * 2^i.
C6_BackoffSchedule ==
    \A k \in 0..(max_retries - 1) :
        (/\ Len(backend_log) = k + 1
         /\ LeadingRateLimits(backend_log) = k
         /\ backend_log[k + 1].ok) =>
            /\ gen_pc = "returned"
            /\ gen_answer = "answer"
            /\ gen_error = "none"
            /\ backend_calls = k + 1
            /\ Len(sleeps) = k
            /\ \A i \in 0..(k - 1) : sleeps[i + 1] = retry_delay * (2 ^ i)

C6_Witness ==
    /\ gen_pc = "returned"
    /\ max_retries = 3
    /\ retry_delay = 3
    /\ backend_calls = 3
    /\ sleeps = <<3, 6>>

\* C7: a backend that always signals a rate limit: generate raises
\* RateLimitError after exactly max_retries + 1 backend calls.
C7_Exhaustion ==
    (gen_pc # "idle" /\ AllRateLimited(backend_log)) =>
        /\ backend_calls = Len(backend_log)
        /\ backend_calls <= max_retries + 1
        /\ (backend_calls = max_retries + 1) <=> (gen_pc = "raised")
        /\ gen_pc = "raised" => gen_error = "RateLimitError"
        /\ gen_pc # "returned"

C7_Witness ==
    /\ gen_pc = "raised"
    /\ gen_error = "RateLimitError"
    /\ max_retries = 2
    /\ backend_calls = 3
    /\ AllRateLimited(backend_log)

\* C8: a backend failure that is not a rate-limit signal ends generate at
\* once with AnswerGenerationError (not RateLimitError): it is the last
\* backend call and no sleep follows it.
C8_OtherFailuresNotRetried ==
    \A n \in 1..Len(backend_log) :
        (/\ ~backend_log[n].ok
         /\ ~(backend_log[n].hasStatus /\ backend_log[n].status = 429)) =>
            /\ n = Len(backend_log)
            /\ gen_pc = "raised"
            /\ gen_error = "AnswerGenerationError"
            /\ backend_calls = n
            /\ Len(sleeps) = n - 1

C8_Witness ==
    /\ gen_pc = "raised"
    /\ gen_error = "AnswerGenerationError"
    /\ Len(backend_log) = 3
    /\ LeadingRateLimits(backend_log) = 2
    /\ backend_log[3].hasStatus
    /\ Len(sleeps) = 2

\* C9: a search call that opened a store connection has closed it when it
\* returns or raises.
C9_ConnectionReleased ==
    vs_pc \in {"returned", "raised"} => ~conn_open

\* C10: a progress callback that raises does not change the outcome: the
\* batch still returns its BatchResult and every row has its status.
C10_CallbackFailureIsolated ==
    (cbRaised /\ BatchOver) =>
        /\ pc = "returned"
        /\ \A i \in Rows : results_df[i].status \in {"success", "failed"}

\* C11: during process_batch the progress callback, when supplied, is
\* invoked at least once for every row of the table, and the first
\* invocation for a row happens before that row's vector search starts.
C11_ProgressReportedPerRow ==
    (hasQuestionCol /\ progress_callback) =>
        /\ pc \in {"search", "rerank", "generate"} => cb_calls[idx] >= 1
        /\ BatchOver => \A i \in 1..Len(table) : cb_calls[i] >= 1

Components(log) == [i \in 1..Len(log) |-> log[i].component]

IsPrefix(s, t) == Len(s) <= Len(t) /\ \A i \in 1..Len(s) : s[i] = t[i]

ExpectedStages(enabled) ==
    IF enabled THEN <<"search", "rerank", "generate">>
    ELSE <<"search", "generate">>

\* C12: process_single calls search, then rerank (only when reranking is
\* enabled), then generate, each component at most once per question and
\* never again after it was called: the calls made so far are always a
\* prefix of that sequence, and the whole sequence when a result is returned.
C12_StageOrder ==
    /\ IsPrefix(Components(ps_calls), ExpectedStages(ps_enable_reranking))
    /\ ps_pc = "returned" =>
           Components(ps_calls) = ExpectedStages(ps_enable_reranking)

C12_Witness ==
    /\ ps_pc = "returned"
    /\ ps_enable_reranking
    /\ Components(ps_calls) = <<"search", "rerank", "generate">>

\* C13: process_single propagates the first error a collaborator raises: the
\* failing call is the last call made (after a failed search neither the
\* reranker nor the generator is called), the error that leaves the method
\* is that call's error, and no result is produced.
C13_FirstErrorPropagates ==
    /\ \A i \in 1..Len(ps_calls) :
         ps_calls[i].outcome # "returned" =>
             /\ i = Len(ps_calls)
             /\ ps_pc = "raised"
             /\ ps_error = ps_calls[i].outcome
             /\ ps_result = NoResult
    /\ ps_pc = "raised" => ps_result = NoResult

C13_Witness ==
    /\ ps_pc = "raised"
    /\ ps_calls = <<Call("search", "VectorSearchError")>>
    /\ ps_enable_reranking

GenerateCalled == \E i \in 1..Len(ps_calls) : ps_calls[i].component = "generate"

FirstCount(top_n, n) ==
    IF top_n <= 0 THEN 0 ELSE IF top_n < n THEN top_n ELSE n

\* C14: with reranking disabled, process_single never calls the reranker
\* and hands to generate exactly the first min(rerank_top_n, number of
\* search results) search results, in search order, each without a score.
C14_BypassForwardsFirstTopN ==
    (~ps_enable_reranking /\ GenerateCalled) =>
        /\ \A i \in 1..Len(ps_calls) : ps_calls[i].component # "rerank"
        /\ Len(ps_generate_input) =
               FirstCount(ps_rerank_top_n, Len(ps_search_results))
        /\ \A i \in 1..Len(ps_generate_input) :
               ps_generate_input[i] = ToRanked(ps_search_results[i], NoScore)

ResultIds(res) == {res[i].chunk_id : i \in 1..Len(res)}

\* C15: for a non-empty candidate list and top_n > 0 (and a query that is
\* accepted), rerank returns exactly min(top_n, len(candidates)) chunks;
\* when scoring succeeds they are distinct candidates carrying their own
\* score, in descending score order, and no candidate left out scores
\* higher than one returned.
C15_TopNByScore ==
    (rr_pc = "done" /\ rr_chunks # <<>> /\ rr_top_n > 0
                    /\ Strip(rr_query) # <<>>) =>
        LET res == rr_result.chunks
            n == Len(rr_chunks)
        IN  /\ ~rr_result.raised
            /\ Len(res) = IF rr_top_n < n THEN rr_top_n ELSE n
            /\ rr_model.kind = "scores" =>
                 /\ Cardinality(ResultIds(res)) = Len(res)
                 /\ \A i \in 1..Len(res) :
                      /\ res[i].chunk_id \in 1..n
                      /\ res[i].rerank_score = rr_model.scores[res[i].chunk_id]
                      /\ res[i].distance = rr_chunks[res[i].chunk_id].distance
                 /\ \A i \in 1..Len(res) : \A j \in 1..Len(res) :
                      i < j => res[i].rerank_score >= res[j].rerank_score
                 /\ \A c \in (1..n) \ ResultIds(res) : \A i \in 1..Len(res) :
                      res[i].rerank_score >= rr_model.scores[c]

C15_Witness ==
    /\ rr_pc = "done"
    /\ rr_model.kind = "scores"
    /\ Len(rr_chunks) = 3
    /\ rr_top_n = 2
    /\ rr_model.scores = <<0, 1, 1>>
    /\ Len(rr_result.chunks) = 2
    /\ rr_result.chunks[1].chunk_id = 2

\* C16: rerank with an empty query or with top_n <= 0 raises RerankError
\* without loading or invoking the relevance model, and with an accepted
\* query, top_n > 0 and no candidates it returns an empty list, again
\* without touching the model.
C16_ValidationBeforeModel ==
    rr_pc = "done" =>
        /\ (rr_query = <<>> \/ rr_top_n <= 0) =>
               /\ rr_result.raised
               /\ rr_result.error # ""
               /\ rr_model_calls = 0
        /\ (Strip(rr_query) # <<>> /\ rr_top_n > 0 /\ rr_chunks = <<>>) =>
               /\ ~rr_result.raised
               /\ rr_result.chunks = <<>>
               /\ rr_model_calls = 0

C16_Witness ==
    /\ rr_pc = "done"
    /\ rr_query = <<"a">>
    /\ rr_top_n = 0
    /\ rr_chunks # <<>>
    /\ rr_result.raised
    /\ rr_model_calls = 0

\* C17: formatting N ranked chunks with _format_contexts_for_storage and
\* parsing the text with _parse_contexts_for_evaluation yields exactly N
\* entries, entry i being the tagged name and the text of chunk i (up to
\* surrounding whitespace).
C17_FormatParseRoundTrip ==
    ctx_pc \in {"parsed", "evaluated"} =>
        /\ Len(ctx_parsed) = Len(ctx_chunks)
        /\ \A i \in 1..Len(ctx_parsed) :
               ctx_parsed[i] = Strip(Block(i, ctx_chunks[i]))

\* the listing, built chunk by chunk from the first
RECURSIVE TaggedListing(_, _)
TaggedListing(chunks, k) ==
    IF k = 0 THEN <<>>
    ELSE (IF k = 1 THEN <<>> ELSE TaggedListing(chunks, k - 1) \o <<"\n", "\n">>)
             \o Header(k, chunks[k].filename) \o <<"\n">> \o chunks[k].chunk_text

\* C18: the prompt lists the chunks in the caller's order, chunk i tagged
\* with position i (1-based) and its source name, between the reference
\* heading and the question heading, and the stored grounding text is that
\* same listing.
C18_PromptAndStorageListing ==
    ctx_pc \in {"stored", "parsed", "evaluated", "raised"} =>
        LET listing == TaggedListing(ctx_chunks, Len(ctx_chunks))
            n == Len(listing)
        IN  /\ ctx_stored = listing
            /\ Len(ctx_prompt) >= n + 9
            /\ SubSeq(ctx_prompt, 1, 5) =
                   <<Instruction, "\n", "\n", ReferenceHeading, "\n">>
            /\ SubSeq(ctx_prompt, 6, 5 + n) = listing
            /\ SubSeq(ctx_prompt, 6 + n, 9 + n) =
                   <<"\n", "\n", QuestionHeading, "\n">>

C18_Witness ==
    /\ ctx_pc = "stored"
    /\ Len(ctx_chunks) = 2
    /\ ctx_chunks[1].filename = "b.pdf"
    /\ ctx_chunks[2].filename = "a.pdf"
    /\ ctx_stored # <<>>

FamilyACeiling == 4000
FamilyBCeiling == 128000

\* C19: the max_tokens of the request handed to the backend is
\* min(requested max_tokens, ceiling of the family the request is built
\* for), 4000 for the Cohere family and 128000 for the generic family; a
\* Cohere-shaped request never carries more than 4000.
C19_MaxTokensClamped ==
    gen_request # NoRequest =>
        LET ceiling == IF gen_request.family = "CohereChatRequest"
                       THEN FamilyACeiling ELSE FamilyBCeiling
        IN  /\ gen_request.family \in {"CohereChatRequest", "GenericChatRequest"}
            /\ gen_request.max_tokens =
                   IF gen_max_tokens < ceiling THEN gen_max_tokens ELSE ceiling
            /\ gen_request.family = "CohereChatRequest" =>
                   gen_request.max_tokens <= FamilyACeiling

C19_Witness ==
    /\ gen_pc = "returned"
    /\ gen_request.family = "CohereChatRequest"
    /\ gen_max_tokens = FamilyBCeiling
    /\ gen_request.max_tokens = FamilyACeiling
    /\ gen_request.model \in OtherModelIds

\* C20: generate picks the request family by a case-insensitive substring
\* match of 'cohere' on the model identifier in use, and the choice agrees
\* with the tables: every COHERE_MODELS identifier gets the Cohere request
\* shape, every GENERIC_MODELS identifier the generic one, 11 identifiers
\* in total.
C20_FamilyBySubstring ==
    gen_request # NoRequest =>
        LET id == gen_request.model
            w == Len(CohereWord)
        IN  /\ id = IF gen_model \in {NoModel, <<>>} THEN default_model
                    ELSE gen_model
            /\ gen_request.family = "CohereChatRequest" <=>
                   \E k \in 0..(Len(id) - w) :
                       \A j \in 1..w : LowerChar(id[k + j]) = CohereWord[j]
            /\ gen_request.family # "CohereChatRequest" =>
                   gen_request.family = "GenericChatRequest"
            /\ id \in Range(COHERE_MODELS) =>
                   gen_request.family = "CohereChatRequest"
            /\ id \in Range(GENERIC_MODELS) =>
                   gen_request.family = "GenericChatRequest"
            /\ Cardinality(Range(COHERE_MODELS) \cup Range(GENERIC_MODELS)) = 11

C20_Witness ==
    /\ gen_pc = "returned"
    /\ gen_model = COHERE_MODELS[2]
    /\ default_model = GENERIC_MODELS[1]
    /\ gen_request.family = "CohereChatRequest"
    /\ gen_request.model = COHERE_MODELS[2]

\* C21: search with an empty query or with top_k <= 0 fails with
\* VectorSearchError before any embedding request is made and before any
\* store connection is opened.
C21_RejectedBeforeEmbedding ==
    (vs_pc \notin {"idle", "start"}
        /\ (vs_query = StrCell(<<>>) \/ EffectiveTopK <= 0)) =>
        /\ vs_pc = "raised"
        /\ vs_error = "VectorSearchError"
        /\ embed_calls = 0
        /\ connect_calls = 0
        /\ ~conn_open

C21_Witness ==
    /\ vs_pc = "raised"
    /\ vs_query = StrCell(<<>>)
    /\ EffectiveTopK > 0
    /\ vs_error = "VectorSearchError"
    /\ embed_calls = 0

\* C22: every embedding, connection or query failure and every malformed
\* row inside search reaches the caller as a VectorSearchError whose cause
\* is that failure, and the embedding call and the connection are each
\* attempted at most once.
C22_FailureWrappedWithCause ==
    vs_pc = "raised" =>
        /\ vs_error = "VectorSearchError"
        /\ embed_calls <= 1
        /\ connect_calls <= 1
        /\ pending \notin {"none", "return"} => vs_cause = pending

C24_MissingColumnFailsFast ==
    ~hasQuestionCol =>
        /\ pc \in {"start", "raised"}
        /\ pc = "raised" => escaped = "ValueError"
        /\ idx = 0
        /\ results_df = <<>>
        /\ \A i \in 1..Len(cb_calls) : cb_calls[i] = 0
        /\ \A i \in 1..Len(raisedBy) : raisedBy[i] = "none"
        /\ search_results = <<>>
        /\ ranked_chunks = <<>>
        /\ batchResult = NoBatchResult

C24_Witness ==
    /\ ~hasQuestionCol
    /\ pc = "raised"
    /\ escaped = "ValueError"
    /\ Len(table) = 2
    /\ progress_callback

\* C25: in process_batch a row whose filter value is missing or blank (no
\* filter column, NaN, or the empty string) is searched with no filter
\* (None); any other filter value is passed to search unchanged.
C25_BlankFilterIsNone ==
    /\ Len(bf_search_log) <= Len(bf_filters)
    /\ bf_pc = "returned" => Len(bf_search_log) = Len(bf_filters)
    /\ \A i \in 1..Len(bf_search_log) :
         IF ~bf_has_filter_col \/ bf_filters[i] \in {NaNFilter, ""}
         THEN bf_search_log[i] = NoFilter
         ELSE bf_search_log[i] = bf_filters[i]

C25_Witness ==
    /\ bf_pc = "returned"
    /\ bf_has_filter_col
    /\ bf_filters = <<"", "manual">>
    /\ bf_search_log = <<NoFilter, "manual">>

\* C26: evaluate on a pipeline built without an evaluator raises
\* EvaluationError at once: the results table is not read, nothing is
\* parsed and no collaborator is called.
C26_EvaluateNeedsEvaluator ==
    (ctx_evaluator = NoEvaluator
        /\ ctx_pc \notin {"idle", "generate", "format", "stored"}) =>
        /\ ctx_pc = "raised"
        /\ ctx_error = "EvaluationError"
        /\ ev_table_reads = 0
        /\ ev_calls = 0
        /\ ctx_parsed = <<>>

C26_Witness ==
    /\ ctx_pc = "raised"
    /\ ctx_evaluator = NoEvaluator
    /\ ctx_error = "EvaluationError"
    /\ Len(ctx_chunks) = 2

\* ------------------------------------------------------------------------
\* Termination of AnswerGenerator.generate
\* ------------------------------------------------------------------------
\* generate under the assumption that every backend call returns or raises
\* and every time.sleep returns: an enabled step is eventually taken.
SpecGenerateFair == InitGenerate /\ [][NextGenerate]_vars /\ WF_vars(NextGenerate)

\* C33: whatever the backend answers, generate makes at most
\* max_retries + 1 backend calls and then returns or raises; it sleeps once
\* after each rate-limited attempt that is followed by another attempt and
\* never after the last attempt; the i-th sleep lasts retry_delay * 2^(i-1).
C33_BoundedRetries ==
    /\ [](gen_pc # "idle" =>
            /\ backend_calls = Len(backend_log)
            /\ backend_calls <= max_retries + 1
            /\ Len(sleeps) = IF gen_pc \in {"returned", "raised"}
                             THEN backend_calls - 1
                             ELSE backend_calls
            /\ \A i \in 1..Len(sleeps) :
                 /\ sleeps[i] = retry_delay * (2 ^ (i - 1))
                 /\ backend_log[i].hasStatus
                 /\ backend_log[i].status = 429)
    /\ <>(gen_pc \in {"returned", "raised"})

C33_Witness ==
    /\ gen_pc = "returned"
    /\ max_retries >= 2
    /\ backend_calls = max_retries + 1
    /\ Len(sleeps) = max_retries

\* ------------------------------------------------------------------------
\* Properties of DataPipeline.process_all
\* ------------------------------------------------------------------------
RECURSIVE ChunksOfSuccessful(_)
ChunksOfSuccessful(docs) ==
    IF docs = <<>> THEN 0
    ELSE (IF Head(docs).status = "success" THEN Head(docs).chunks_saved ELSE 0)
         + ChunksOfSuccessful(Tail(docs))

\* C27: the PipelineResult that process_all returns has
\* successful + failed + skipped = total_files = the number of input paths,
\* one ProcessedDocument per path in input order, and total_chunks equal to
\* the sum of chunks_saved over the successful documents.
C27_CountsAddUp ==
    dp_pc = "returned" =>
        /\ dp_result.total_files = dp_n
        /\ dp_result.successful + dp_result.failed + dp_result.skipped
             = dp_result.total_files
        /\ Len(dp_result.processed_docs) = dp_n
        /\ \A i \in 1..Len(dp_result.processed_docs) :
             dp_result.processed_docs[i].path = i
        /\ dp_result.total_chunks = ChunksOfSuccessful(dp_result.processed_docs)

C27_Witness ==
    /\ dp_pc = "returned"
    /\ dp_n >= 2
    /\ dp_result.successful >= 1
    /\ dp_result.skipped >= 1

\* C28: process_single never raises: every file gets a document whose
\* status is 'success', 'skipped' or 'failed' (with an error text when
\* failed), and no exception leaves process_all.
C28_ProcessSingleNeverRaises ==
    /\ dp_escaped = "none"
    /\ dp_pc # "raised"
    /\ \A i \in 1..Len(processed_docs) :
         /\ processed_docs[i].status \in {"success", "skipped", "failed"}
         /\ processed_docs[i].status = "failed" =>
              processed_docs[i].error # "none"

\* C29: every document reported with status 'success' has exactly one
\* committed source_documents row under its document_id and exactly
\* chunks_saved (> 0) committed chunk rows.
C29_SuccessIsPersisted ==
    \A i \in 1..Len(processed_docs) :
        processed_docs[i].status = "success" =>
            /\ processed_docs[i].document_id # NoDocumentId
            /\ db.docs[processed_docs[i].document_id] = 1
            /\ processed_docs[i].chunks_saved > 0
            /\ db.chunks[processed_docs[i].document_id]
                 = processed_docs[i].chunks_saved

C29_Witness ==
    /\ dp_pc = "returned"
    /\ \E i \in 1..Len(processed_docs) :
         /\ processed_docs[i].status = "success"
         /\ processed_docs[i].chunks_saved >= 2

\* C30: when process_all has returned, the progress callback has been
\* invoked exactly once per file, in order, with that file's final status.
C30_OneCallbackPerFile ==
    (dp_pc = "returned" /\ dp_callback) =>
        /\ Len(dp_cb_log) = dp_n
        /\ \A i \in 1..Len(dp_cb_log) :
             /\ i <= Len(processed_docs)
             /\ dp_cb_log[i] = [file |-> i,
                                status |-> processed_docs[i].status]

\* C32: a file reported as 'failed' has no committed source_documents row
\* and no committed chunk row, at any later time.
C32_FailedLeavesNothing ==
    \A i \in 1..Len(processed_docs) :
        processed_docs[i].status = "failed" =>
            /\ db.docs[processed_docs[i].path] = 0
            /\ db.chunks[processed_docs[i].path] = 0

RowsWritten(i) ==
    db.docs[i] + db.pending_docs[i] + db.chunks[i] + db.pending_chunks[i]

\* C36: embed_query is called once per chunk in chunk order; the store
\* holds a row of the current file, committed or not, only when every chunk
\* of it has been embedded; a file that ended with an embedding failure or
\* with no chunks has no row at all; and every chunk row carries the
\* embedding of its own chunk.
C36_EmbedAllBeforeWrite ==
    /\ \A i \in 1..Len(embeddings) :
         /\ i <= dp_chunks
         /\ embeddings[i] = EmbedQuery(ChunkTexts(dp_chunks)[i])
    /\ (dp_idx \in 1..dp_n /\ RowsWritten(dp_idx) > 0) =>
         (dp_chunks > 0 /\ Len(embeddings) = dp_chunks)
    /\ \A i \in 1..Len(processed_docs) :
         processed_docs[i].error \in {"EmbeddingError", "No chunks"} =>
             RowsWritten(processed_docs[i].path) = 0
    /\ \A r \in chunk_rows : r.embedding = EmbedQuery(r.chunk_text)

C36_Witness ==
    /\ \E r \in chunk_rows : r.chunk_text >= 2
    /\ \E i \in 1..Len(processed_docs) :
         processed_docs[i].error = "EmbeddingError"

NothingPending ==
    \A i \in DOMAIN db.docs : db.pending_docs[i] = 0 /\ db.pending_chunks[i] = 0

C31_MimeTypesRouted ==
    ex_pc \notin {"idle", "extract"} =>
        /\ ex_content_type \in {"pdf", "application/pdf"} => ex_route = "pdf"
        /\ ex_content_type \in {"txt", "text/plain"} =>
             ex_route = "text" /\ ex_route_type = "txt"
        /\ ex_content_type \in {"csv", "text/csv", "application/csv"} =>
             ex_route = "text" /\ ex_route_type = "csv"
        /\ ex_content_type \notin ShortTypes \cup MimeTypes =>
             ex_route = "unsupported" /\ ex_error = "Unsupported file type"

\* C35: in the pipeline, a pdf, txt or csv object whose extraction itself
\* does not fail, and whose later stages all succeed, ends with status
\* 'success'.
C35_HandOffSucceeds ==
    ( /\ ex_caller = "pipeline"
      /\ ex_pc = "done"
      /\ ex_content_type \in ShortTypes \cup MimeTypes
      /\ ex_error \notin {"Failed to extract PDF", "Failed to decode"} )
    => ex_status = "success"

\* C38: when _extract_pdf has returned or raised, no temporary file it
\* created is left on disk.
C38_TempFileRemoved ==
    (ex_route = "pdf" /\ ex_pc \in {"returned", "raised", "done"}) =>
        temp_files = 0

\* ------------------------------------------------------------------------
\* Properties of the tables of RAGPipeline.process_batch
\* ------------------------------------------------------------------------
OutputTable == heap[bt_results_df]

RowsWithStatus(status) ==
    {p \in 1..Len(OutputTable.index) : OutputTable.cells[p]["status"] = status}

\* C34: when process_batch has returned, no row of the output table is
\* 'pending', the rows with status 'success' are as many as successful and
\* those with 'failed' as many as failed, and each row holds the outcome of
\* its own question, whatever the index labels of the input table.
C34_RowsHoldOwnOutcome ==
    bt_pc = "returned" =>
        /\ RowsWithStatus("pending") = {}
        /\ Cardinality(RowsWithStatus("success")) = bt_result.successful
        /\ Cardinality(RowsWithStatus("failed")) = bt_result.failed
        /\ \A p \in 1..Len(OutputTable.index) :
             IF bt_outcomes[p] = "returns"
             THEN /\ OutputTable.cells[p]["status"] = "success"
                  /\ OutputTable.cells[p]["answer"] = <<"answer", p>>
             ELSE /\ OutputTable.cells[p]["status"] = "failed"
                  /\ OutputTable.cells[p]["error"] = <<"error", p>>

ResultColumnNames ==
    {ResultColumns[k][1] : k \in 1..Len(ResultColumns)} \cup {"error"}

====
